---- MODULE Spec2Model ----
(***************************************************************************)
(* Turn/action resolution engines of the two cooperative games of the      *)
(* repository: "Pandemic" (src/pandemic) and "The Captain Is Dead"         *)
(* (src/captain-is-dead).  Each engine is a state machine driven by        *)
(* play_turn; the external ActionProvider is a nondeterministic choice of  *)
(* an intent from a bounded set, and every random.shuffle / random.choice  *)
(* is a nondeterministic choice.                                           *)
(***************************************************************************)
EXTENDS Integers, Sequences, FiniteSets, TLC

(***************************************************************************)
(* Generic helpers                                                         *)
(***************************************************************************)
Range(s) == {s[i] : i \in 1..Len(s)}

\* list.remove(x): delete the first occurrence of x (x must occur in s)
RECURSIVE RemoveFirst(_, _)
RemoveFirst(s, x) ==
  IF s = <<>> THEN <<>>
  ELSE IF Head(s) = x THEN Tail(s)
  ELSE <<Head(s)>> \o RemoveFirst(Tail(s), x)

\* list.pop(): the last element is the one drawn
Last(s) == s[Len(s)]
ButLast(s) == SubSeq(s, 1, Len(s) - 1)

RECURSIVE SumOver(_, _)
SumOver(f, S) ==
  IF S = {} THEN 0
  ELSE LET x == CHOOSE y \in S : TRUE IN f[x] + SumOver(f, S \ {x})

Min(a, b) == IF a < b THEN a ELSE b
Max(a, b) == IF a > b THEN a ELSE b

(***************************************************************************)
(* PANDEMIC: the Registry (Game._initialize_cities)                        *)
(***************************************************************************)
Colors == {"Blue", "Yellow", "Black", "Red"}

\* dict order of GameState.disease_cubes / disease_status
ColorOrder == <<"Blue", "Yellow", "Black", "Red">>

BlueCities ==
  <<"Atlanta", "Chicago", "Montreal", "New York", "Washington",
    "San Francisco", "London", "Madrid", "Paris", "Essen">>
YellowCities ==
  <<"Los Angeles", "Mexico City", "Miami", "Bogota", "Lima",
    "Santiago", "Sao Paulo", "Buenos Aires", "Lagos", "Kinshasa">>
BlackCities ==
  <<"Algiers", "Cairo", "Istanbul", "Moscow", "Tehran",
    "Baghdad", "Riyadh", "Karachi", "Mumbai", "Delhi">>
RedCities ==
  <<"Beijing", "Seoul", "Tokyo", "Shanghai", "Hong Kong",
    "Taipei", "Osaka", "Manila", "Ho Chi Minh City", "Jakarta">>

\* insertion order of the dict self.state.cities
CityOrder == BlueCities \o YellowCities \o BlackCities \o RedCities
Registry == Range(CityOrder)

CityColor(c) ==
  IF c \in Range(BlueCities) THEN "Blue"
  ELSE IF c \in Range(YellowCities) THEN "Yellow"
  ELSE IF c \in Range(BlackCities) THEN "Black"
  ELSE "Red"

\* City.connections, in list order, exactly as written in the source
Connections(c) ==
  CASE c = "Atlanta" -> <<"Chicago", "Washington", "Miami">>
    [] c = "Chicago" -> <<"San Francisco", "Los Angeles", "Mexico City", "Atlanta", "Montreal">>
    [] c = "Montreal" -> <<"Chicago", "New York", "Washington">>
    [] c = "New York" -> <<"Montreal", "Washington", "London", "Madrid">>
    [] c = "Washington" -> <<"Atlanta", "Montreal", "New York", "Miami">>
    [] c = "San Francisco" -> <<"Chicago", "Los Angeles", "Tokyo", "Manila">>
    [] c = "London" -> <<"New York", "Madrid", "Paris", "Essen">>
    [] c = "Madrid" -> <<"New York", "London", "Paris", "Algiers", "Sao Paulo">>
    [] c = "Paris" -> <<"London", "Madrid", "Algiers", "Milan", "Essen">>
    [] c = "Essen" -> <<"London", "Paris", "Milan", "St. Petersburg">>
    [] c = "Los Angeles" -> <<"San Francisco", "Chicago", "Mexico City", "Sydney">>
    [] c = "Mexico City" -> <<"Los Angeles", "Chicago", "Miami", "Lima", "Bogota">>
    [] c = "Miami" -> <<"Atlanta", "Washington", "Mexico City", "Bogota">>
    [] c = "Bogota" -> <<"Miami", "Mexico City", "Lima", "Sao Paulo", "Buenos Aires">>
    [] c = "Lima" -> <<"Mexico City", "Bogota", "Santiago">>
    [] c = "Santiago" -> <<"Lima">>
    [] c = "Sao Paulo" -> <<"Bogota", "Buenos Aires", "Madrid", "Lagos">>
    [] c = "Buenos Aires" -> <<"Bogota", "Sao Paulo">>
    [] c = "Lagos" -> <<"Sao Paulo", "Kinshasa", "Khartoum">>
    [] c = "Kinshasa" -> <<"Lagos", "Khartoum", "Johannesburg">>
    [] c = "Algiers" -> <<"Madrid", "Paris", "Istanbul", "Cairo">>
    [] c = "Cairo" -> <<"Algiers", "Istanbul", "Baghdad", "Khartoum">>
    [] c = "Istanbul" -> <<"Milan", "St. Petersburg", "Moscow", "Baghdad", "Cairo", "Algiers">>
    [] c = "Moscow" -> <<"St. Petersburg", "Istanbul", "Tehran">>
    [] c = "Tehran" -> <<"Moscow", "Baghdad", "Karachi", "Delhi">>
    [] c = "Baghdad" -> <<"Istanbul", "Cairo", "Tehran", "Karachi", "Riyadh">>
    [] c = "Riyadh" -> <<"Baghdad", "Karachi", "Cairo">>
    [] c = "Karachi" -> <<"Tehran", "Baghdad", "Riyadh", "Mumbai", "Delhi">>
    [] c = "Mumbai" -> <<"Karachi", "Delhi", "Chennai">>
    [] c = "Delhi" -> <<"Tehran", "Karachi", "Mumbai", "Chennai", "Kolkata">>
    [] c = "Beijing" -> <<"Seoul", "Shanghai">>
    [] c = "Seoul" -> <<"Beijing", "Shanghai", "Tokyo">>
    [] c = "Tokyo" -> <<"Seoul", "Shanghai", "Osaka", "San Francisco">>
    [] c = "Shanghai" -> <<"Beijing", "Seoul", "Tokyo", "Taipei", "Hong Kong">>
    [] c = "Hong Kong" -> <<"Shanghai", "Taipei", "Manila", "Ho Chi Minh City", "Bangkok", "Kolkata">>
    [] c = "Taipei" -> <<"Shanghai", "Osaka", "Manila", "Hong Kong">>
    [] c = "Osaka" -> <<"Tokyo", "Taipei">>
    [] c = "Manila" -> <<"Taipei", "Hong Kong", "Ho Chi Minh City", "Sydney", "San Francisco">>
    [] c = "Ho Chi Minh City" -> <<"Hong Kong", "Manila", "Jakarta", "Bangkok">>
    [] c = "Jakarta" -> <<"Ho Chi Minh City", "Bangkok", "Chennai", "Sydney">>
    [] OTHER -> <<>>

EventCards ==
  <<"Airlift", "Government Grant", "Forecast", "Resilient Population", "One Quiet Night">>

Roles ==
  {"Medic", "Scientist", "Researcher", "Operations Expert", "Dispatcher",
   "Quarantine Specialist", "Contingency Planner"}

\* GameState.__init__: cubes of each colour, outbreak limit, infection rates
CubesPerColor == 24
OutbreakLimit == 8
InfectionRates == <<2, 2, 2, 3, 3, 4, 4>>
TotalResearchStations == 6
HandLimit == 7
ActionsPerTurn == 4

(***************************************************************************)
(* PANDEMIC: cube addition and outbreak cascade                            *)
(* The operators below work on a call frame f:                             *)
(*   f.state  the GameState (see PandemicState0 for its fields)            *)
(*   f.ok     the value returned by the call                               *)
(*   f.err    TRUE once a KeyError has been raised (it propagates)         *)
(*   f.log    history of the calls: one entry per _add_disease_cube call   *)
(***************************************************************************)
NoCubes == [col \in Colors |-> 0]

Frame(st) == [state |-> st, ok |-> TRUE, err |-> FALSE, log |-> <<>>]

\* a City.add_disease_cube that refuses one cube too late
CityAddRefusedAtFour(count) == count >= 4

\* City.add_disease_cube returns False (outbreak) instead of adding
CityAddRefused(count) == count >= 3

LogEntry(city, color, kind, before, after, inc) ==
  [city |-> city, color |-> color, kind |-> kind,
   before |-> before, after |-> after, inc |-> inc]

\* a _handle_outbreak that counts an outbreak twice
OutbreakIncrementTwice(n) == n + 2

\* the statement self.state.outbreak_counter += 1
OutbreakIncrement(n) == n + 1

\* a _add_disease_cube that forgets to take the cube from the supply
SupplyAfterAddKept(n) == n

\* the statement self.state.disease_cubes[color] -= 1
SupplyAfterAdd(n) == n - 1

\* the test "self.state.disease_cubes[color] <= 0" of _add_disease_cube
SupplyExhausted(n) == n <= 0

\* outbreak_chain = set([city.name]), a local of each _handle_outbreak call
OutbreakChain(city) == {city}

RECURSIVE AddDiseaseCube(_, _, _)
RECURSIVE HandleOutbreak(_, _, _)
RECURSIVE Propagate(_, _, _, _, _)

\* Game._add_disease_cube
AddDiseaseCube(f, city, color) ==
  LET before == f.state.cities[city].disease_cubes[color] IN
  IF f.state.disease_status[color] = "Eradicated"
  THEN [f EXCEPT !.ok = TRUE,
                 !.log = Append(@, LogEntry(city, color, "eradicated", before, before, 0))]
  ELSE IF SupplyExhausted(f.state.disease_cubes[color])
  THEN [f EXCEPT !.ok = FALSE,
                 !.log = Append(@, LogEntry(city, color, "nosupply", before, before, 0))]
  ELSE IF ~CityAddRefused(before)
  THEN [f EXCEPT !.state.cities[city].disease_cubes[color] = @ + 1,
                 !.state.disease_cubes[color] = SupplyAfterAdd(@),
                 !.ok = TRUE,
                 !.log = Append(@, LogEntry(city, color, "added", before, before + 1, 0))]
  ELSE HandleOutbreak(f, city, color)

\* Game._handle_outbreak
HandleOutbreak(f, city, color) ==
  LET n0 == f.state.outbreak_counter
      n1 == OutbreakIncrement(n0)
      f1 == [f EXCEPT !.state.outbreak_counter = n1]
      r  == IF n1 >= OutbreakLimit
            THEN [f1 EXCEPT !.ok = FALSE]
            ELSE Propagate(f1, OutbreakChain(city), color, Connections(city), 1)
  IN [r EXCEPT !.log = Append(@, LogEntry(city, color, "outbreak",
                                          f.state.cities[city].disease_cubes[color],
                                          r.state.cities[city].disease_cubes[color],
                                          n1 - n0))]

\* the loop "for connected_city_name in city.connections" of _handle_outbreak
Propagate(f, outbreak_chain, color, conns, i) ==
  IF i > Len(conns) THEN [f EXCEPT !.ok = TRUE]
  ELSE IF conns[i] \notin Registry
  THEN [f EXCEPT !.ok = FALSE, !.err = TRUE]     \* self.state.cities[name]: KeyError
  ELSE IF conns[i] \in outbreak_chain
  THEN Propagate(f, outbreak_chain, color, conns, i + 1)
  ELSE LET r == AddDiseaseCube(f, conns[i], color) IN
       IF r.err \/ ~r.ok THEN r
       ELSE Propagate(r, outbreak_chain, color, conns, i + 1)

\* a call of _add_disease_cube made by play_turn or setup_game themselves
\* (not by an outbreak): the "top" entry opens a new cascade in the history
TopLevelAdd(f, city, color) ==
  AddDiseaseCube([f EXCEPT !.log = Append(@, LogEntry(city, color, "top",
                             f.state.cities[city].disease_cubes[color],
                             f.state.outbreak_counter, 0))],
                 city, color)

\* n successive top-level calls whose return value is ignored
\* (initial infections, epidemic); a KeyError ends the sequence
RECURSIVE AddCubes(_, _, _, _)
AddCubes(f, city, color, n) ==
  IF n = 0 \/ f.err THEN f
  ELSE AddCubes(TopLevelAdd(f, city, color), city, color, n - 1)

\* cubes of one colour on all cities of the Registry
CubesOnBoard(st, color) ==
  SumOver([c \in Registry |-> st.cities[c].disease_cubes[color]], Registry)

(***************************************************************************)
(* PANDEMIC: GameState                                                     *)
(***************************************************************************)
Nil == "None"

PlayerNames == <<"Player 1", "Player 2", "Player 3", "Player 4">>

\* models.Player.__init__
NewPlayer(role, location) ==
  [role |-> role, location |-> location, hand |-> <<>>,
   action_points |-> ActionsPerTurn, messages |-> 0]

\* models.City.__init__ for every city, GameState.__init__
PandemicState0 ==
  [cities |-> [c \in Registry |->
                 [disease_cubes |-> NoCubes, has_research_station |-> FALSE]],
   disease_status |-> [col \in Colors |-> "Active"],
   outbreak_counter |-> 0,
   infection_rate_index |-> 0,
   disease_cubes |-> [col \in Colors |-> CubesPerColor],
   placed_research_stations |-> 0,
   players |-> <<>>,
   current_player_index |-> 0,
   player_deck |-> <<>>,
   player_discard |-> <<>>,
   infection_deck |-> <<>>,
   infection_discard |-> <<>>,
   quiet_night_active |-> FALSE,
   message_history |-> 0]

\* GameState.get_current_player (the index is 0-based as in the source)
Cur(st) == st.current_player_index + 1

\* GameState.next_player_turn
NextPlayerTurn(st) ==
  LET n == (st.current_player_index + 1) % Len(st.players) IN
  [st EXCEPT !.current_player_index = n,
             !.players[n + 1].action_points = ActionsPerTurn]

\* first colour, in dict order, whose supply is exhausted ("None" if none)
RECURSIVE FirstExhausted(_, _)
FirstExhausted(supply, i) ==
  IF i > Len(ColorOrder) THEN Nil
  ELSE IF supply[ColorOrder[i]] <= 0 THEN ColorOrder[i]
  ELSE FirstExhausted(supply, i + 1)

\* an is_game_over that tests the outbreak limit before the cures
PandemicOverDefeatFirst(status, outbreaks, supply, deckLen) ==
  IF outbreaks >= OutbreakLimit
  THEN <<TRUE, "Defeat! Too many outbreaks occurred.">>
  ELSE IF \A col \in Colors : status[col] # "Active"
  THEN <<TRUE, "Victory! All diseases have been cured.">>
  ELSE IF FirstExhausted(supply, 1) # Nil
  THEN <<TRUE, "Defeat! Ran out of " \o FirstExhausted(supply, 1) \o " disease cubes.">>
  ELSE IF deckLen = 0
  THEN <<TRUE, "Defeat! The player deck is empty.">>
  ELSE <<FALSE, "">>

\* GameState.is_game_over, as a function of the fields it reads
PandemicOver(status, outbreaks, supply, deckLen) ==
  IF \A col \in Colors : status[col] # "Active"
  THEN <<TRUE, "Victory! All diseases have been cured.">>
  ELSE IF outbreaks >= OutbreakLimit
  THEN <<TRUE, "Defeat! Too many outbreaks occurred.">>
  ELSE IF FirstExhausted(supply, 1) # Nil
  THEN <<TRUE, "Defeat! Ran out of " \o FirstExhausted(supply, 1) \o " disease cubes.">>
  ELSE IF deckLen = 0
  THEN <<TRUE, "Defeat! The player deck is empty.">>
  ELSE <<FALSE, "">>

IsGameOver(st) ==
  PandemicOver(st.disease_status, st.outbreak_counter, st.disease_cubes,
               Len(st.player_deck))

(***************************************************************************)
(* PANDEMIC: Action Resolver (Game._apply_action)                          *)
(***************************************************************************)
\* an intent is the dict returned by the ActionProvider; a key that is
\* absent holds Nil (use_operations_expert: FALSE, card_names: <<>>)
BaseIntent ==
  [action_type |-> Nil, destination |-> Nil, movement_type |-> Nil,
   disease_color |-> Nil, use_operations_expert |-> FALSE,
   card_name |-> Nil, player_name |-> Nil, direction |-> Nil,
   card_names |-> <<>>, event_name |-> Nil, target_player |-> Nil,
   target_city |-> Nil, message |-> Nil]

\* dict.get(key, default)
Get(v, default) == IF v = Nil THEN default ELSE v

\* Python truthiness of an optional string: None and "" are falsy
Falsy(v) == v = Nil \/ v = ""

Res(st, success, message) ==
  [state |-> st, success |-> success, message |-> message]

\* getattr(DiseaseColor, s.upper()): the enum member, or Nil (AttributeError)
ParseColor(str) ==
  CASE str \in {"Blue", "blue", "BLUE"} -> "Blue"
    [] str \in {"Yellow", "yellow", "YELLOW"} -> "Yellow"
    [] str \in {"Black", "black", "BLACK"} -> "Black"
    [] str \in {"Red", "red", "RED"} -> "Red"
    [] OTHER -> Nil

\* the loops "while city.disease_cubes[color] > 0: remove, supply += 1" and
\* "for _ in range(cubes_removed): remove, supply += 1"
RECURSIVE RemoveAllCubes(_, _, _)
RemoveAllCubes(st, city, color) ==
  IF st.cities[city].disease_cubes[color] <= 0 THEN st
  ELSE RemoveAllCubes([st EXCEPT !.cities[city].disease_cubes[color] = @ - 1,
                                 !.disease_cubes[color] = @ + 1],
                      city, color)

\* City.remove_disease_cube followed by "supply += 1" (one cube)
RemoveOneCube(st, city, color) ==
  [st EXCEPT !.cities[city].disease_cubes[color] = @ - 1,
             !.disease_cubes[color] = @ + 1]

\* "for color, status in disease_status.items(): if status == CURED: ..."
RECURSIVE CleanCured(_, _, _)
CleanCured(st, city, i) ==
  IF i > Len(ColorOrder) THEN st
  ELSE IF st.disease_status[ColorOrder[i]] = "Cured"
  THEN CleanCured(RemoveAllCubes(st, city, ColorOrder[i]), city, i + 1)
  ELSE CleanCured(st, city, i + 1)

\* an arrival that cleans nothing
MedicArrivesIdle(st, p, destination) == st

\* the Medic block that follows every relocation of player p
MedicArrives(st, p, destination) ==
  IF st.players[p].role = "Medic" THEN CleanCured(st, destination, 1) ELSE st

\* Player.remove_card + player_discard.append(PlayerCard(card))
DiscardFromHand(st, p, card) ==
  [st EXCEPT !.players[p].hand = RemoveFirst(@, card),
             !.player_discard = Append(@, card)]

\* "for player in players: if player.name == name" (0 when not found)
FindPlayer(st, name) ==
  IF \E i \in 1..Len(st.players) : PlayerNames[i] = name
  THEN CHOOSE i \in 1..Len(st.players) : PlayerNames[i] = name
  ELSE 0

ApplyMove(st, a) ==
  LET p == Cur(st)
      me == st.players[p]
      destination == a.destination
      movement_type == Get(a.movement_type, "regular")
  IN
  IF Falsy(destination) THEN Res(st, FALSE, "No destination specified for movement")
  ELSE IF destination \notin Registry THEN Res(st, FALSE, "Invalid destination")
  ELSE IF movement_type = "regular" THEN
    IF destination \notin Range(Connections(me.location))
    THEN Res(st, FALSE, "not connected")
    ELSE Res(MedicArrives([st EXCEPT !.players[p].location = destination], p, destination),
             TRUE, "moved")
  ELSE IF movement_type = "direct_flight" THEN
    IF destination \notin Range(me.hand)
    THEN Res(st, FALSE, "no destination card for direct flight")
    ELSE Res(MedicArrives([DiscardFromHand(st, p, destination)
                             EXCEPT !.players[p].location = destination], p, destination),
             TRUE, "took a direct flight")
  ELSE IF movement_type = "charter_flight" THEN
    IF me.location \notin Range(me.hand)
    THEN Res(st, FALSE, "no current location card for charter flight")
    ELSE Res(MedicArrives([DiscardFromHand(st, p, me.location)
                             EXCEPT !.players[p].location = destination], p, destination),
             TRUE, "took a charter flight")
  ELSE IF movement_type = "shuttle_flight" THEN
    IF ~st.cities[me.location].has_research_station
    THEN Res(st, FALSE, "current location does not have a research station")
    ELSE IF ~st.cities[destination].has_research_station
    THEN Res(st, FALSE, "destination does not have a research station")
    ELSE Res(MedicArrives([st EXCEPT !.players[p].location = destination], p, destination),
             TRUE, "took a shuttle flight")
  ELSE IF movement_type = "operations_expert" THEN
    IF me.role # "Operations Expert"
    THEN Res(st, FALSE, "Only the Operations Expert can use this movement type")
    ELSE IF ~st.cities[me.location].has_research_station
    THEN Res(st, FALSE, "Operations Expert must be at a research station")
    ELSE IF me.hand = <<>>
    THEN Res(st, FALSE, "Operations Expert needs a city card to discard")
    ELSE Res(MedicArrives([DiscardFromHand(st, p, me.hand[1])
                             EXCEPT !.players[p].location = destination], p, destination),
             TRUE, "Operations Expert moved")
  ELSE Res(st, FALSE, "Unknown movement type")

\* a treat_disease that removes one cube whoever treats and whatever the status
ApplyTreatOne(st, a) ==
  LET city == st.players[Cur(st)].location
      disease_color == ParseColor(a.disease_color)
  IN
  IF Falsy(a.disease_color) THEN Res(st, FALSE, "No disease color specified for treatment")
  ELSE IF disease_color = Nil THEN Res(st, FALSE, "Invalid disease color")
  ELSE IF st.cities[city].disease_cubes[disease_color] <= 0
  THEN Res(st, FALSE, "No disease cubes of that color")
  ELSE Res(RemoveOneCube(st, city, disease_color), TRUE, "removed 1 cube")

\* the treat_disease branch of the action handler
ApplyTreat(st, a) ==
  LET p == Cur(st)
      me == st.players[p]
      city == me.location
      disease_color == ParseColor(a.disease_color)
  IN
  IF Falsy(a.disease_color) THEN Res(st, FALSE, "No disease color specified for treatment")
  ELSE IF disease_color = Nil THEN Res(st, FALSE, "Invalid disease color")
  ELSE IF st.cities[city].disease_cubes[disease_color] <= 0
  THEN Res(st, FALSE, "No disease cubes of that color")
  ELSE IF me.role = "Medic"
  THEN Res(RemoveAllCubes(st, city, disease_color), TRUE, "Medic removed all cubes")
  ELSE IF st.disease_status[disease_color] # "Active"
  THEN Res(RemoveAllCubes(st, city, disease_color), TRUE, "removed all cubes (disease is cured)")
  ELSE Res(RemoveOneCube(st, city, disease_color), TRUE, "removed 1 cube")

BuildStation(st, city) ==
  [st EXCEPT !.cities[city].has_research_station = TRUE,
             !.placed_research_stations = @ + 1]

\* a build that discards the card of the city before any test
ApplyBuildHasty(st, a) ==
  LET p == Cur(st)
      city == st.players[p].location
      st1 == DiscardFromHand(st, p, city)
  IN
  IF st.cities[city].has_research_station \/ city \notin Range(st.players[p].hand)
  THEN Res(st1, FALSE, "no research station built")
  ELSE Res(BuildStation(st1, city), TRUE, "built a research station")

\* the build_research_station branch of the action handler
ApplyBuild(st, a) ==
  LET p == Cur(st)
      me == st.players[p]
      city == me.location
  IN
  IF st.cities[city].has_research_station
  THEN Res(st, FALSE, "already has a research station")
  ELSE IF st.placed_research_stations >= TotalResearchStations
  THEN Res(st, FALSE, "Maximum number of research stations already built")
  ELSE IF a.use_operations_expert /\ me.role = "Operations Expert"
  THEN Res(BuildStation(st, city), TRUE, "Operations Expert built a research station")
  ELSE IF city \notin Range(me.hand)
  THEN Res(st, FALSE, "no city card to build a research station")
  ELSE Res(BuildStation(DiscardFromHand(st, p, city), city), TRUE, "built a research station")

\* a share_knowledge that asks neither for one city nor for the card of the city
ApplyShareAnywhere(st, a) ==
  LET p == Cur(st)
      direction == Get(a.direction, "give")
      t == FindPlayer(st, a.player_name)
      giver == IF direction = "give" THEN p ELSE t
      receiver == IF direction = "give" THEN t ELSE p
  IN
  IF Falsy(a.card_name) \/ Falsy(a.player_name) \/ t = 0
  THEN Res(st, FALSE, "No card or target player")
  ELSE IF a.card_name \notin Range(st.players[giver].hand)
  THEN Res(st, FALSE, "giver doesn't have the card to share")
  ELSE
    LET st1 == [st EXCEPT !.players[giver].hand = RemoveFirst(@, a.card_name)]
        st2 == [st1 EXCEPT !.players[receiver].hand = Append(@, a.card_name)]
    IN Res(st2, TRUE, "shared card")

\* the share_knowledge branch of the action handler
ApplyShare(st, a) ==
  LET p == Cur(st)
      card_name == a.card_name
      direction == Get(a.direction, "give")
      t == FindPlayer(st, a.player_name)
  IN
  IF Falsy(card_name) THEN Res(st, FALSE, "No card specified for knowledge sharing")
  ELSE IF Falsy(a.player_name) THEN Res(st, FALSE, "No target player specified for knowledge sharing")
  ELSE IF t = 0 THEN Res(st, FALSE, "Player not found")
  ELSE IF st.players[p].location # st.players[t].location
  THEN Res(st, FALSE, "must be in the same city to share knowledge")
  ELSE
    LET is_researcher ==
          \/ (st.players[p].role = "Researcher" /\ direction = "give")
          \/ (st.players[t].role = "Researcher" /\ direction = "take")
        giver == IF direction = "give" THEN p ELSE t
        receiver == IF direction = "give" THEN t ELSE p
    IN
    IF ~is_researcher /\ card_name # st.players[giver].location
    THEN Res(st, FALSE, "Can only share the card of the current city")
    ELSE IF card_name \notin Range(st.players[giver].hand)
    THEN Res(st, FALSE, "giver doesn't have the card to share")
    ELSE
      LET st1 == [st EXCEPT !.players[giver].hand = RemoveFirst(@, card_name)]
          st2 == [st1 EXCEPT !.players[receiver].hand = Append(@, card_name)]
      IN Res(st2, TRUE, IF is_researcher THEN "Researcher shared card" ELSE "shared card")

\* Player.remove_card: removes the first occurrence, or nothing when absent
RemoveCard(hand, card) ==
  IF card \in Range(hand) THEN RemoveFirst(hand, card) ELSE hand

\* "for card in card_names: remove_card(card); player_discard.append(...)"
RECURSIVE DiscardCureCards(_, _, _, _)
DiscardCureCards(st, p, card_names, i) ==
  IF i > Len(card_names) THEN st
  ELSE DiscardCureCards(
         [st EXCEPT !.players[p].hand = RemoveCard(@, card_names[i]),
                    !.player_discard = Append(@, card_names[i])],
         p, card_names, i + 1)

\* a discover_cure that triggers no cleanup
MedicsCleanNone(st, color, i) == st

\* "for player in players: if player.role == MEDIC: remove all cubes ..."
RECURSIVE MedicsCleanCure(_, _, _)
MedicsCleanCure(st, color, i) ==
  IF i > Len(st.players) THEN st
  ELSE IF st.players[i].role = "Medic"
  THEN MedicsCleanCure(RemoveAllCubes(st, st.players[i].location, color), color, i + 1)
  ELSE MedicsCleanCure(st, color, i + 1)

\* cards needed for a cure
CardsRequired(role) == IF role = "Scientist" THEN 4 ELSE 5

ApplyCure(st, a) ==
  LET p == Cur(st)
      me == st.players[p]
      card_names == a.card_names
      disease_color == ParseColor(a.disease_color)
  IN
  IF Falsy(a.disease_color) THEN Res(st, FALSE, "No disease color specified for cure discovery")
  ELSE IF disease_color = Nil THEN Res(st, FALSE, "Invalid disease color")
  ELSE IF st.disease_status[disease_color] # "Active"
  THEN Res(st, FALSE, "disease is already cured")
  ELSE IF ~st.cities[me.location].has_research_station
  THEN Res(st, FALSE, "must be at a research station to discover a cure")
  ELSE IF Len(card_names) < CardsRequired(me.role)
  THEN Res(st, FALSE, "not enough cards provided")
  ELSE IF \E i \in 1..Len(card_names) : card_names[i] \notin Range(me.hand)
  THEN Res(st, FALSE, "player doesn't have the card")
  ELSE IF \E i \in 1..Len(card_names) :
            card_names[i] \in Registry /\ CityColor(card_names[i]) # disease_color
  THEN Res(st, FALSE, "not a city card of that color")
  ELSE
    LET st1 == DiscardCureCards(st, p, card_names, 1)
        st2 == [st1 EXCEPT !.disease_status[disease_color] = "Cured"]
    IN Res(MedicsCleanCure(st2, disease_color, 1), TRUE, "discovered a cure")

\* remove the event card and append PlayerCard(event_name, is_event=True)
DiscardEvent(st, p, event_name) == DiscardFromHand(st, p, event_name)

\* a play_event handler in which every event card held is played and discarded
ApplyEventAll(st, a) ==
  IF Falsy(a.event_name) THEN Res(st, FALSE, "No event card specified")
  ELSE IF a.event_name \notin Range(st.players[Cur(st)].hand)
  THEN Res(st, FALSE, "player doesn't have the event card")
  ELSE Res(DiscardEvent(st, Cur(st), a.event_name), TRUE, "played the event card")

\* the play_event branch of the action handler
ApplyEvent(st, a) ==
  LET p == Cur(st)
      me == st.players[p]
      event_name == a.event_name
  IN
  IF Falsy(event_name) THEN Res(st, FALSE, "No event card specified")
  ELSE IF event_name \notin Range(me.hand)
  THEN Res(st, FALSE, "player doesn't have the event card")
  ELSE IF event_name = "Airlift" THEN
    LET t == FindPlayer(st, a.target_player)
        destination == a.target_city
    IN
    IF Falsy(a.target_player) \/ Falsy(destination)
    THEN Res(st, FALSE, "Airlift requires target player and destination")
    ELSE IF t = 0 THEN Res(st, FALSE, "Player not found")
    ELSE IF destination \notin Registry THEN Res(st, FALSE, "City not found")
    ELSE Res(MedicArrives(DiscardEvent([st EXCEPT !.players[t].location = destination],
                                       p, event_name),
                          t, destination),
             TRUE, "used Airlift")
  ELSE IF event_name = "Government Grant" THEN
    LET city_name == a.target_city IN
    IF Falsy(city_name) THEN Res(st, FALSE, "Government Grant requires a target city")
    ELSE IF city_name \notin Registry THEN Res(st, FALSE, "City not found")
    ELSE IF st.cities[city_name].has_research_station
    THEN Res(st, FALSE, "already has a research station")
    ELSE IF st.placed_research_stations >= TotalResearchStations
    THEN Res(st, FALSE, "Maximum number of research stations already built")
    ELSE Res(DiscardEvent(BuildStation(st, city_name), p, event_name),
             TRUE, "used Government Grant")
  ELSE IF event_name = "One Quiet Night" THEN
    Res(DiscardEvent([st EXCEPT !.quiet_night_active = TRUE], p, event_name),
        TRUE, "played One Quiet Night")
  ELSE Res(st, FALSE, "Event card not fully implemented yet")

\* GameState.send_message (the caller has checked can_players_communicate)
Deliver(st, receiver) ==
  [st EXCEPT !.players[receiver].messages = @ + 1,
             !.message_history = @ + 1]

\* GameState.broadcast_message
RECURSIVE Broadcast(_, _, _)
Broadcast(st, sender, i) ==
  IF i > Len(st.players) THEN st
  ELSE IF i # sender /\ st.players[i].location = st.players[sender].location
  THEN Broadcast(Deliver(st, i), sender, i + 1)
  ELSE Broadcast(st, sender, i + 1)

ApplyCommunicate(st, a) ==
  LET p == Cur(st)
      t == FindPlayer(st, a.target_player)
  IN
  IF Falsy(a.message) THEN Res(st, FALSE, "No message provided for communication")
  ELSE IF Falsy(a.target_player) THEN Res(st, FALSE, "No target player specified for communication")
  ELSE IF a.target_player = "all" THEN
    IF ~\E i \in 1..Len(st.players) :
          i # p /\ st.players[i].location = st.players[p].location
    THEN Res(st, FALSE, "No other players in your location to communicate with")
    ELSE Res(Broadcast(st, p, 1), TRUE, "sent a message to all players")
  ELSE IF t = 0 THEN Res(st, FALSE, "Player not found")
  ELSE IF st.players[p].location # st.players[t].location
  THEN Res(st, FALSE, "Cannot communicate - must be in the same location")
  ELSE Res(Deliver(st, t), TRUE, "sent a message")

\* Game._apply_action
ApplyAction(st, a) ==
  LET action_type == Get(a.action_type, "") IN
  CASE action_type = "pass_turn" -> Res(st, TRUE, "passes their action")
    [] action_type = "move" -> ApplyMove(st, a)
    [] action_type = "treat_disease" -> ApplyTreat(st, a)
    [] action_type = "build_research_station" -> ApplyBuild(st, a)
    [] action_type = "share_knowledge" -> ApplyShare(st, a)
    [] action_type = "discover_cure" -> ApplyCure(st, a)
    [] action_type = "play_event" -> ApplyEvent(st, a)
    [] action_type = "communicate" -> ApplyCommunicate(st, a)
    [] OTHER -> Res(st, FALSE, "Unknown action type")

(***************************************************************************)
(* PANDEMIC: setup (Game.__init__, Game.setup_game)                        *)
(* random.shuffle is a choice among a bounded family of permutations.      *)
(***************************************************************************)
Reverse(s) == [i \in 1..Len(s) |-> s[Len(s) + 1 - i]]

\* how deep the cuts of the family go into the deck (wrapping around)
CutSteps == <<15, 30, 25, 50>>

\* the k-th permutation of the family: identity, reversal, then cuts of the
\* deck at the depths of CutSteps
Perm(k, s) ==
  IF k = 0 \/ Len(s) < 2 THEN s
  ELSE IF k = 1 THEN Reverse(s)
  ELSE LET c == (CutSteps[((k - 2) % Len(CutSteps)) + 1] % (Len(s) - 1)) + 1
       IN SubSeq(s, c + 1, Len(s)) \o SubSeq(s, 1, c)

\* number of permutations beyond the identity that a shuffle may return
MaxShuffle == 5

\* the outcomes of random.shuffle(s) that are explored
Shuffles(s) == {Perm(k, s) : k \in 0..MaxShuffle}

\* list(PlayerRole), in declaration order
RoleOrder ==
  <<"Medic", "Scientist", "Researcher", "Operations Expert", "Dispatcher",
    "Quarantine Specialist", "Contingency Planner">>

\* Game.__init__: self.num_epidemic_cards
NumEpidemicCards(difficulty) ==
  CASE difficulty = "easy" -> 4
    [] difficulty = "normal" -> 5
    [] difficulty = "hard" -> 6

\* Game.__init__: self.num_players = min(max(2, num_players), 4)
ClampPlayers(n) == Min(Max(2, n), 4)

\* Game._deal_initial_cards: cards_per_player
CardsPerPlayer(n) == CASE n = 2 -> 4 [] n = 3 -> 3 [] n = 4 -> 2

\* Game._create_player_deck: pile i (0-based) with its Epidemic card, shuffled
Pile(cards, n, i, k) ==
  LET per == Len(cards) \div n
      first == i * per + 1
      last == IF i < n - 1 THEN (i + 1) * per ELSE Len(cards)
  IN Perm(k, Append(SubSeq(cards, first, last), "Epidemic"))

RECURSIVE StackPiles(_, _, _, _)
StackPiles(cards, n, i, k) ==
  IF i >= n THEN <<>>
  ELSE Pile(cards, n, i, k) \o StackPiles(cards, n, i + 1, k)

CreatePlayerDeck(difficulty, k) ==
  StackPiles(Perm(k, CityOrder \o EventCards), NumEpidemicCards(difficulty), 0, k)

\* Game._create_players
RECURSIVE CreatePlayers(_, _, _)
CreatePlayers(roles, n, i) ==
  IF i > n THEN <<>>
  ELSE <<NewPlayer(roles[i], "Atlanta")>> \o CreatePlayers(roles, n, i + 1)

\* Game._perform_initial_infections: "for num_cubes in [3, 2, 1]: for _ in range(3)"
RECURSIVE InitialInfections(_, _)
InitialInfections(f, j) ==
  IF j >= 9 \/ f.err THEN f
  ELSE IF f.state.infection_deck = <<>> THEN InitialInfections(f, j + 1)
  ELSE
    LET card == Last(f.state.infection_deck)
        f1 == [f EXCEPT !.state.infection_deck = ButLast(@)]
        f2 == AddCubes(f1, card, CityColor(card), 3 - (j \div 3))
    IN InitialInfections(
         IF f2.err THEN f2
         ELSE [f2 EXCEPT !.state.infection_discard = Append(@, card)],
         j + 1)

\* Game._deal_initial_cards
RECURSIVE DealInitialCards(_, _, _)
DealInitialCards(st, p, left) ==
  IF p > Len(st.players) THEN st
  ELSE IF left = 0 THEN DealInitialCards(st, p + 1, CardsPerPlayer(Len(st.players)))
  ELSE IF st.player_deck = <<>> THEN DealInitialCards(st, p, left - 1)
  ELSE DealInitialCards(
         [st EXCEPT !.players[p].hand = Append(@, Last(st.player_deck)),
                    !.player_deck = ButLast(@)],
         p, left - 1)

\* Game.setup_game; k selects the outcome of every shuffle of the setup
SetupGame(num_players, difficulty, k) ==
  LET n == ClampPlayers(num_players)
      st1 == [PandemicState0 EXCEPT
                !.infection_deck = Perm(k, CityOrder),
                !.player_deck = CreatePlayerDeck(difficulty, k),
                !.players = CreatePlayers(Perm(k, RoleOrder), n, 1)]
      f2 == InitialInfections(Frame(st1), 0)
      st3 == [f2.state EXCEPT !.cities["Atlanta"].has_research_station = TRUE,
                              !.placed_research_stations = 1]
  IN [f2 EXCEPT !.state = DealInitialCards(st3, 1, CardsPerPlayer(n))]

\* number of player cards in the deck, the discard pile and the hands
RECURSIVE HandCards(_, _)
HandCards(players, i) ==
  IF i > Len(players) THEN 0 ELSE Len(players[i].hand) + HandCards(players, i + 1)

TotalPlayerCards(st) ==
  Len(st.player_deck) + Len(st.player_discard) + HandCards(st.players, 1)

(***************************************************************************)
(* PANDEMIC: the intents the ActionProvider may return                     *)
(***************************************************************************)
Intent(action_type) == [BaseIntent EXCEPT !.action_type = action_type]

MoveIntent(destination, movement_type) ==
  [BaseIntent EXCEPT !.action_type = "move", !.destination = destination,
                     !.movement_type = movement_type]

TreatIntent(color) ==
  [BaseIntent EXCEPT !.action_type = "treat_disease", !.disease_color = color]

\* names that are not keys of self.state.cities: one that appears in
\* adjacency lists, one that appears nowhere, and the empty string
NotACity == {"Milan", "Atlantis", ""}

\* the first n cards of a hand (all of it when it is shorter)
FirstCards(hand, n) == SubSeq(hand, 1, Min(n, Len(hand)))

\* the first card of the hand of each player
FirstOfHands(st) ==
  {st.players[i].hand[1] : i \in {j \in 1..Len(st.players) : st.players[j].hand # <<>>}}

\* a list that names the first card of a hand n times
Repeated(hand, n) == IF hand = <<>> THEN <<>> ELSE [i \in 1..n |-> hand[1]]

\* the intents a provider may return in a position: every kind of action,
\* well-formed and malformed
AllIntents(st) ==
  LET me == st.players[Cur(st)] IN
  {Intent("pass_turn"), Intent("dance"), Intent(Nil),
   TreatIntent("Blue"), TreatIntent("red"), TreatIntent(Nil), TreatIntent("Green"),
   MoveIntent("Chicago", Nil), MoveIntent("Atlanta", "regular"), MoveIntent(Nil, Nil)}
  \cup {MoveIntent(d, "regular") : d \in NotACity}
  \cup {MoveIntent(d, m) :
          d \in {"Chicago", "Milan"},
          m \in {"direct_flight", "charter_flight", "shuttle_flight",
                 "operations_expert", "teleport"}}
  \cup {[BaseIntent EXCEPT !.action_type = "build_research_station",
                           !.use_operations_expert = u] : u \in BOOLEAN}
  \cup {[BaseIntent EXCEPT !.action_type = "share_knowledge", !.card_name = c,
                           !.player_name = n, !.direction = d] :
          c \in {Nil, me.location, "Paris"} \cup FirstOfHands(st),
          n \in {Nil, "Player 2", "Player 9"},
          d \in {Nil, "take"}}
  \cup {[BaseIntent EXCEPT !.action_type = "discover_cure", !.disease_color = c,
                           !.card_names = cs] :
          c \in {Nil, "Blue", "Green", "Red"},
          cs \in {<<>>, FirstCards(me.hand, 4), FirstCards(me.hand, 5),
                  Repeated(me.hand, 5)}}
  \cup {[BaseIntent EXCEPT !.action_type = "play_event", !.event_name = e,
                           !.target_player = n, !.target_city = c] :
          e \in {Nil} \cup Range(EventCards),
          n \in {Nil, "Player 1"},
          c \in {Nil, "Chicago", "Atlanta", "Atlantis", "Jakarta"}}
  \cup {[BaseIntent EXCEPT !.action_type = "communicate", !.message = m,
                           !.target_player = n] :
          m \in {Nil, "hello"}, n \in {Nil, "all", "Player 2", "Player 9"}}

\* play_turn: the intent returned by agent.get_action, or the pass_turn that
\* replaces it when the provider raises.  A provider with no free intent left
\* only passes.
Intents(st, free) ==
  IF free > 0 THEN AllIntents(st) ELSE {Intent("pass_turn")}

\* the provider raises (so play_turn passes) in every turn before turn wake
Awake(left, turn, wake) == IF turn >= wake THEN left ELSE 0

(***************************************************************************)
(* PANDEMIC: state of a run (Game.run_game, Game.play_turn)                *)
(***************************************************************************)
VARIABLES
  state,          \* Game.state, the GameState
  pc,             \* position: "setup", "turn", "action", "draw", "infect",
                  \*   "over" (play_turn returned game over), "stopped"
                  \*   (max_turns reached), "crashed" (an exception left play_turn)
  iter,           \* iterations done of "for _ in range(4)" in play_turn
  drawn,          \* iterations done of "for _ in range(2)" in play_turn
  to_infect,      \* iterations left of "for _ in range(infection_rate)"
  result,         \* the pair returned by the last play_turn
  turn_counter,   \* run_game: turn_counter
  config,         \* arguments of Game(...) and run_game(...), and the provider
  free,           \* how many more intents other than pass_turn the provider returns
  last,           \* history: the step just taken
  cascade,        \* history: the cube additions of the step just taken (of
                  \*   the whole infection phase, during and after it)
  setup_cards     \* history: TotalPlayerCards at the end of setup_game

pvars == <<state, pc, iter, drawn, to_infect, result, turn_counter, config,
           free, last, cascade, setup_cards>>

\* The Captain Is Dead: state of a run (Game.run_game, Game.play_turn)
VARIABLES
  game_state,                \* Game.game_state, the GameState
  cpc,                       \* position: "turn", "action", "crisis", "over"
                             \*   (play_turn returned game over), "stopped"
  action_points_remaining,   \* play_turn: the local of that name
  cresult,                   \* the pair returned by the last play_turn
  turn_count,                \* run_game: turn_count
  cconfig,                   \* arguments of Game(...) and run_game(...)
  cfree,                     \* how many more free intents the provider returns
  clast                      \* history: the step just taken

cvars == <<game_state, cpc, action_points_remaining, cresult, turn_count,
           cconfig, cfree, clast>>

NoResult == <<FALSE, "">>

Step(kind, action_type, success, message) ==
  [kind |-> kind, action_type |-> action_type, target |-> Nil,
   success |-> success, message |-> message]

\* main.py: default of --turns
DefaultTurns == 2

\* --turns of the long runs, in which the provider only passes
DeepTurns == 21

\* the number of intents other than pass_turn a provider returns in a run
MaxIntents == 2

\* the turn in which the provider of the late run returns its one intent
LateTurns == 5

Configs ==
  {[num_players |-> 2, difficulty |-> "normal", max_turns |-> DefaultTurns,
    free |-> MaxIntents, wake |-> 1]}
  \cup [num_players : {2, 3}, difficulty : {"easy", "normal", "hard"},
        max_turns : {DeepTurns}, free : {0}, wake : {1}]
  \cup {[num_players |-> 2, difficulty |-> "easy", max_turns |-> LateTurns,
         free |-> 1, wake |-> LateTurns]}

\* Game(...) has built GameState(); setup_game has not run yet
PandemicInit ==
  /\ state = PandemicState0
  /\ pc = "setup"
  /\ iter = 0
  /\ drawn = 0
  /\ to_infect = 0
  /\ result = NoResult
  /\ turn_counter = 0
  /\ config \in Configs
  /\ free = config.free
  /\ last = Step("init", Nil, FALSE, "")
  /\ cascade = <<>>
  /\ setup_cards = 0

\* Game.setup_game
Setup ==
  /\ UNCHANGED cvars
  /\ pc = "setup"
  /\ \E k \in 0..MaxShuffle :
       LET f == SetupGame(config.num_players, config.difficulty, k) IN
       /\ state' = f.state
       /\ cascade' = f.log
       /\ setup_cards' = TotalPlayerCards(f.state)
  /\ pc' = "turn"
  /\ last' = Step("setup", Nil, TRUE, "")
  /\ UNCHANGED <<iter, drawn, to_infect, result, turn_counter, config, free>>

\* run_game: "while not game_over and turn_counter < max_turns", play_turn begins
BeginTurn ==
  /\ UNCHANGED cvars
  /\ pc = "turn"
  /\ turn_counter < config.max_turns
  /\ turn_counter' = turn_counter + 1
  /\ pc' = "action"
  /\ iter' = 0
  /\ last' = Step("begin", Nil, TRUE, "")
  /\ cascade' = <<>>
  /\ UNCHANGED <<state, drawn, to_infect, result, config, free, setup_cards>>

\* run_game: the turn limit ends the loop
Stop ==
  /\ UNCHANGED cvars
  /\ pc = "turn"
  /\ turn_counter >= config.max_turns
  /\ pc' = "stopped"
  /\ last' = Step("stop", Nil, TRUE, "")
  /\ cascade' = <<>>
  /\ UNCHANGED <<state, iter, drawn, to_infect, result, turn_counter, config,
                 free, setup_cards>>

\* a play_turn that charges every action, applied or not
ChargeActionAlways(st, success) ==
  [st EXCEPT !.players[Cur(st)].action_points = @ - 1]

\* the action point charged by play_turn for an applied action
ChargeAction(st, success) ==
  IF success THEN [st EXCEPT !.players[Cur(st)].action_points = @ - 1] ELSE st

\* play_turn: one iteration of the action loop; a is the intent the provider returns
Action ==
  /\ UNCHANGED cvars
  /\ pc = "action"
  /\ iter < ActionsPerTurn
  /\ state.players[Cur(state)].action_points > 0
  /\ \E a \in Intents(state, Awake(free, turn_counter, config.wake)) :
       LET r == ApplyAction(state, a)
           st1 == ChargeAction(r.state, r.success)
           over == IsGameOver(st1)
       IN /\ state' = st1
          /\ last' = [Step("action", a.action_type, r.success, r.message)
                         EXCEPT !.target = IF a.action_type = "play_event"
                                           THEN a.event_name ELSE a.destination]
          /\ pc' = IF over[1] THEN "over" ELSE "action"
          /\ result' = IF over[1] THEN over ELSE result
          /\ free' = IF a.action_type = "pass_turn" THEN free ELSE free - 1
  /\ iter' = iter + 1
  /\ cascade' = <<>>
  /\ UNCHANGED <<drawn, to_infect, turn_counter, config, setup_cards>>

\* play_turn: the action loop ends (4 iterations done, or no action point left)
EndActions ==
  /\ UNCHANGED cvars
  /\ pc = "action"
  /\ (iter >= ActionsPerTurn \/ state.players[Cur(state)].action_points <= 0)
  /\ pc' = "draw"
  /\ drawn' = 0
  /\ last' = Step("end_actions", Nil, TRUE, "")
  /\ cascade' = <<>>
  /\ UNCHANGED <<state, iter, to_infect, result, turn_counter, config, free, setup_cards>>

\* play_turn, epidemic step 1: infection_rate_index
IncreaseRate(i) == Min(i + 1, Len(InfectionRates) - 1)

\* play_turn, epidemic step 2: the card infection_deck[0] gets 3 cubes
EpidemicInfect(f) ==
  IF f.state.infection_deck = <<>> THEN f
  ELSE
    LET card == Head(f.state.infection_deck)
        f1 == [f EXCEPT !.state.infection_deck = Tail(@)]
        f2 == AddCubes(f1, card, CityColor(card), 3)
    IN IF f2.err THEN f2
       ELSE [f2 EXCEPT !.state.infection_discard = Append(@, card)]

\* play_turn, epidemic step 3: "infection_deck = infection_discard + infection_deck"
\* with the discard pile shuffled into the order shuffled
Intensify(st, shuffled) ==
  [st EXCEPT !.infection_deck = shuffled \o st.infection_deck,
             !.infection_discard = <<>>]

\* play_turn: a drawn card that is not an Epidemic joins the hand; hand limit
TakeCard(st, p, card) ==
  LET st1 == [st EXCEPT !.players[p].hand = Append(@, card)] IN
  IF Len(st1.players[p].hand) > HandLimit
  THEN DiscardFromHand(st1, p, st1.players[p].hand[1])
  ELSE st1

\* a draw loop that leaves with "break" instead of returning the defeat
EmptyDeckBreak == [pc |-> "infect", result |-> <<FALSE, "">>]

\* play_turn: "if not self.state.player_deck: return True, ..." in the draw loop
EmptyDeckReturn ==
  [pc |-> "over", result |-> <<TRUE, "Defeat! The player deck is empty.">>]

\* play_turn: one iteration of the loop that draws 2 player cards
DrawCard ==
  /\ UNCHANGED cvars
  /\ pc = "draw"
  /\ drawn < 2
  /\ IF state.player_deck = <<>>
     THEN /\ pc' = EmptyDeckReturn.pc
          /\ result' = EmptyDeckReturn.result
          /\ last' = Step("draw", "deck_empty", FALSE, "")
          /\ cascade' = <<>>
          /\ UNCHANGED <<state, drawn>>
     ELSE LET card == Last(state.player_deck)
              st1 == [state EXCEPT !.player_deck = ButLast(@)]
          IN IF card = "Epidemic"
             THEN LET st2 == [st1 EXCEPT !.infection_rate_index = IncreaseRate(@)]
                      f == EpidemicInfect(Frame(st2))
                  IN /\ cascade' = f.log
                     /\ last' = Step("draw", "epidemic", ~f.err, "")
                     /\ IF f.err
                        THEN /\ state' = f.state
                             /\ pc' = "crashed"
                             /\ UNCHANGED drawn
                        ELSE /\ \E shuffled \in Shuffles(f.state.infection_discard) :
                                  state' = Intensify(f.state, shuffled)
                             /\ pc' = "draw"
                             /\ drawn' = drawn + 1
                     /\ UNCHANGED result
             ELSE /\ state' = TakeCard(st1, Cur(state), card)
                  /\ last' = Step("draw", "card", TRUE, "")
                  /\ cascade' = <<>>
                  /\ pc' = "draw"
                  /\ drawn' = drawn + 1
                  /\ UNCHANGED result
  /\ UNCHANGED <<iter, to_infect, turn_counter, config, free, setup_cards>>

\* an end of the draws that starts the infection phase whatever the flag says
EndDrawInfects ==
  /\ UNCHANGED cvars
  /\ pc = "draw"
  /\ drawn = 2
  /\ LET over == IsGameOver(state) IN
     IF over[1]
     THEN /\ pc' = "over"
          /\ result' = over
          /\ UNCHANGED <<state, to_infect>>
     ELSE /\ pc' = "infect"
          /\ to_infect' = InfectionRates[state.infection_rate_index + 1]
          /\ UNCHANGED <<state, result>>
  /\ last' = Step("end_draw", Nil, TRUE, "")
  /\ cascade' = <<>>
  /\ UNCHANGED <<iter, drawn, turn_counter, config, free, setup_cards>>

\* play_turn: after the draws, the game-over check and the start of the
\* infection phase (or its skipping by One Quiet Night)
EndDraw ==
  /\ UNCHANGED cvars
  /\ pc = "draw"
  /\ drawn = 2
  /\ LET over == IsGameOver(state) IN
     IF over[1]
     THEN /\ pc' = "over"
          /\ result' = over
          /\ UNCHANGED <<state, to_infect>>
     ELSE IF ~state.quiet_night_active
     THEN /\ pc' = "infect"
          /\ to_infect' = InfectionRates[state.infection_rate_index + 1]
          /\ UNCHANGED <<state, result>>
     ELSE LET st1 == [state EXCEPT !.quiet_night_active = FALSE]
              over2 == IsGameOver(st1)
          IN /\ state' = IF over2[1] THEN st1 ELSE NextPlayerTurn(st1)
             /\ pc' = IF over2[1] THEN "over" ELSE "turn"
             /\ result' = IF over2[1] THEN over2 ELSE NoResult
             /\ UNCHANGED to_infect
  /\ last' = Step("end_draw", Nil, TRUE, "")
  /\ cascade' = <<>>
  /\ UNCHANGED <<iter, drawn, turn_counter, config, free, setup_cards>>

\* _infect_cities: one iteration of "for _ in range(infection_rate)"
InfectCard ==
  /\ UNCHANGED cvars
  /\ pc = "infect"
  /\ to_infect > 0
  /\ IF state.infection_deck = <<>> /\ state.infection_discard = <<>>
     THEN \* "No more infection cards!": break
          /\ to_infect' = 0
          /\ last' = Step("infect", "no_cards", FALSE, "")
          /\ UNCHANGED <<state, pc, cascade>>
     ELSE \E deck \in IF state.infection_deck = <<>>
                      THEN Shuffles(state.infection_discard)
                      ELSE {state.infection_deck} :
            LET st1 == IF state.infection_deck = <<>>
                       THEN [state EXCEPT !.infection_deck = deck,
                                          !.infection_discard = <<>>]
                       ELSE state
                card == Last(st1.infection_deck)
                f1 == Frame([st1 EXCEPT !.infection_deck = ButLast(@)])
                f2 == TopLevelAdd(f1, card, CityColor(card))
            IN /\ cascade' = cascade \o f2.log
               /\ last' = Step("infect", card, ~f2.err, "")
               /\ IF f2.err
                  THEN /\ state' = f2.state
                       /\ pc' = "crashed"
                       /\ UNCHANGED to_infect
                  ELSE /\ state' = [f2.state EXCEPT !.infection_discard = Append(@, card)]
                       /\ pc' = "infect"
                       /\ to_infect' = to_infect - 1
  /\ UNCHANGED <<iter, drawn, result, turn_counter, config, free, setup_cards>>

\* play_turn: after _infect_cities, the game-over check and next_player_turn
EndInfect ==
  /\ UNCHANGED cvars
  /\ pc = "infect"
  /\ to_infect = 0
  /\ LET st1 == [state EXCEPT !.quiet_night_active = FALSE]
         over == IsGameOver(st1)
     IN /\ state' = IF over[1] THEN st1 ELSE NextPlayerTurn(st1)
        /\ pc' = IF over[1] THEN "over" ELSE "turn"
        /\ result' = IF over[1] THEN over ELSE NoResult
  /\ last' = Step("end_infect", Nil, TRUE, "")
  /\ UNCHANGED <<iter, drawn, to_infect, turn_counter, config, free, setup_cards,
                 cascade>>

(***************************************************************************)
(* THE CAPTAIN IS DEAD: models.py and the GameState of game_state.py        *)
(***************************************************************************)
\* Location enum values: the Registry of this game
Locations ==
  {"Bridge", "Engineering", "Weapons Bay", "Science Lab", "Teleporter",
   "Sick Bay", "Communications Center", "Holodeck"}

\* GameState.systems, in insertion order
SystemOrder ==
  <<"Jump Core", "Shields", "Sensors", "Teleporter", "Life Support",
    "Targeting Computer", "Holodeck">>

SystemNames == Range(SystemOrder)

SkillTypes == {"Tactical", "Engineering", "Science", "Medical", "Leadership"}

SkillSet(engineering, tactical, science, medical, leadership) ==
  [Engineering |-> engineering, Tactical |-> tactical, Science |-> science,
   Medical |-> medical, Leadership |-> leadership]

\* Character.__init__ and next_character_turn: standard action points
StandardActionPoints == 4

\* is_game_over and the Jump Core repair: progress that completes the repair
JumpCoreGoal == 5

\* resolve_crisis: no new threat is added from this many active threats on
ThreatCap == 4

\* use_system Holodeck: skills are capped at this value
SkillCap == 5

NewCharacter(name, skills, location) ==
  [name |-> name, skills |-> skills, location |-> location,
   action_points |-> StandardActionPoints]

\* setup_game: character_templates
CharacterTemplates ==
  <<NewCharacter("Alex Chen", SkillSet(3, 1, 2, 0, 1), "Engineering"),
    NewCharacter("Dr. Maya Patel", SkillSet(1, 0, 3, 2, 1), "Science Lab"),
    NewCharacter("Commander Riz Jackson", SkillSet(0, 3, 1, 0, 2), "Weapons Bay"),
    NewCharacter("Dr. James Wilson", SkillSet(0, 0, 2, 3, 1), "Sick Bay"),
    NewCharacter("Lt. Olivia Chen", SkillSet(1, 1, 1, 0, 3), "Communications Center"),
    NewCharacter("Acting Captain Mira Novak", SkillSet(1, 2, 1, 0, 3), "Bridge")>>

Threat(name, difficulty) == [name |-> name, difficulty |-> difficulty]

\* setup_game: threat_templates
ThreatTemplates ==
  <<Threat("System Cascade Failure", 3), Threat("Alien Boarding Party", 4),
    Threat("Energy Drain", 2), Threat("Computer Malfunction", 3)>>

\* resolve_crisis: potential_threats
PotentialThreats ==
  {Threat("Alien Saboteur", 3), Threat("Power Fluctuation", 2),
   Threat("Hull Breach", 4), Threat("Navigation Error", 2)}

\* setup_game: crisis_templates, by name
CrisisTemplates ==
  <<"System Failure", "Alien Boarding", "Power Surge",
    "Communications Interference", "Hull Breach", "Navigation Error",
    "Alien Attack", "Life Support Failure", "Computer Virus",
    "Sensor Malfunction">>

\* CrisisCard.effect_type of each template, and of the default "Emergency Alert"
EffectType(crisis) ==
  CASE crisis \in {"Alien Boarding", "Alien Attack"} -> "new_threat"
    [] crisis \in {"Communications Interference", "Computer Virus"} -> "action_restriction"
    [] OTHER -> "system_damage"

\* GameState.__init__
CaptainState0 ==
  [systems |-> [sys \in SystemNames |->
                  IF sys = "Jump Core" THEN "Offline" ELSE "Online"],
   alert_level |-> "Yellow Alert",
   jump_core_progress |-> 0,
   active_threats |-> <<>>,
   characters |-> <<>>,
   current_character_index |-> 0,
   crisis_deck |-> <<>>,
   crisis_discard |-> <<>>,
   last_crisis |-> Nil]

\* GameState.get_current_character, as an index into characters
CurChar(gs) == gs.current_character_index + 1

\* GameState.next_character_turn
NextCharacterTurn(gs) ==
  [gs EXCEPT !.characters[CurChar(gs)].action_points = StandardActionPoints,
             !.current_character_index = (@ + 1) % Len(gs.characters)]

\* an is_game_over that does not look at the critical systems
CaptainOverLenient(jump_core_progress, systems, alert_level, num_threats) ==
  IF jump_core_progress >= JumpCoreGoal
  THEN <<TRUE, "Victory! The jump core has been fully repaired and the ship has escaped.">>
  ELSE <<FALSE, "">>

\* GameState.is_game_over, as a function of the fields it reads
CaptainOver(jump_core_progress, systems, alert_level, num_threats) ==
  IF jump_core_progress >= JumpCoreGoal
  THEN <<TRUE, "Victory! The jump core has been fully repaired and the ship has escaped.">>
  ELSE IF systems["Life Support"] = "Offline"
  THEN <<TRUE, "Defeat! Life Support has gone offline.">>
  ELSE IF systems["Shields"] = "Offline"
  THEN <<TRUE, "Defeat! Shields has gone offline.">>
  ELSE IF alert_level = "Red Alert" /\ num_threats > 3
  THEN <<TRUE, "Defeat! The ship has been overwhelmed by threats during Red Alert.">>
  ELSE <<FALSE, "">>

CaptainIsGameOver(gs) ==
  CaptainOver(gs.jump_core_progress, gs.systems, gs.alert_level,
              Len(gs.active_threats))

\* Game.__init__: the clamps on num_characters and num_threats
ClampCharacters(n) == Max(1, Min(6, n))

ClampThreats(n) == Max(0, Min(4, n))

\* Game.setup_game; k selects the outcome of random.shuffle(crisis_deck)
CaptainSetup(num_characters, num_threats, difficulty, k) ==
  LET chars == SubSeq(CharacterTemplates, 1, ClampCharacters(num_characters))
      threats == SubSeq(ThreatTemplates, 1, ClampThreats(num_threats))
      gs == [CaptainState0 EXCEPT !.characters = chars,
                                  !.active_threats = threats,
                                  !.crisis_deck = Perm(k, CrisisTemplates)]
  IN IF difficulty = "easy"
     THEN [gs EXCEPT
             !.active_threats = [i \in 1..Len(threats) |->
                [threats[i] EXCEPT !.difficulty = Max(1, @ - 1)]],
             !.characters = [i \in 1..Len(chars) |->
                [chars[i] EXCEPT !.action_points = 5]]]
     ELSE IF difficulty = "hard"
     THEN [gs EXCEPT
             !.active_threats = [i \in 1..Len(threats) |->
                [threats[i] EXCEPT !.difficulty = @ + 1]],
             !.systems["Shields"] = "Damaged",
             !.alert_level = "Orange Alert",
             !.characters = [i \in 1..Len(chars) |->
                [chars[i] EXCEPT !.action_points = 3]]]
     ELSE gs

(***************************************************************************)
(* THE CAPTAIN IS DEAD: crisis phase (draw_crisis_card, resolve_crisis).    *)
(* random.choice is a choice among all its candidates.                      *)
(***************************************************************************)
\* an escalation that goes to Red Alert from any level
EscalateToRed(alert_level) == "Red Alert"

\* resolve_crisis: the alert level one step up
Escalate(alert_level) ==
  IF alert_level = "Yellow Alert" THEN "Orange Alert" ELSE "Red Alert"

\* resolve_crisis: available_systems
AvailableSystems(gs) ==
  {sys \in SystemNames : gs.systems[sys] # "Offline" /\ sys # "Jump Core"}

\* resolve_crisis: the damage done to the system chosen first
DamageSystem(gs, sys) ==
  IF gs.systems[sys] = "Online" THEN [gs EXCEPT !.systems[sys] = "Damaged"]
  ELSE IF gs.systems[sys] = "Damaged"
  THEN [gs EXCEPT !.systems[sys] = "Offline",
                  !.alert_level = IF sys = "Shields" /\ @ # "Red Alert"
                                  THEN Escalate(@) ELSE @]
  ELSE gs

\* resolve_crisis: the damage done to the additional system (shields offline)
DamageAdditional(gs, sys) ==
  IF gs.systems[sys] = "Online" THEN [gs EXCEPT !.systems[sys] = "Damaged"]
  ELSE IF gs.systems[sys] = "Damaged" THEN [gs EXCEPT !.systems[sys] = "Offline"]
  ELSE gs

\* resolve_crisis: "character.action_points = max(1, character.action_points - 1)"
RestrictActions(gs) ==
  [gs EXCEPT !.characters = [i \in 1..Len(gs.characters) |->
     [gs.characters[i] EXCEPT !.action_points = Max(1, @ - 1)]]]

\* a new_threat effect that adds a threat whatever the number of threats
CrisisEffectUncapped(gs, effect_type) ==
  IF effect_type = "new_threat"
  THEN {[gs EXCEPT !.active_threats = Append(@, t)] : t \in PotentialThreats}
  ELSE {gs}

\* resolve_crisis: the effect of the card itself
CrisisEffect(gs, effect_type) ==
  IF effect_type = "system_damage"
  THEN IF AvailableSystems(gs) = {} THEN {gs}
       ELSE {DamageSystem(gs, sys) : sys \in AvailableSystems(gs)}
  ELSE IF effect_type = "new_threat"
  THEN IF Len(gs.active_threats) < ThreatCap
       THEN {[gs EXCEPT !.active_threats = Append(@, t)] : t \in PotentialThreats}
       ELSE {[gs EXCEPT !.alert_level =
                IF @ = "Red Alert" THEN @ ELSE Escalate(@)]}
  ELSE IF effect_type = "action_restriction" THEN {RestrictActions(gs)}
  ELSE {gs}

\* resolve_crisis: "If shields are offline, make crisis effects worse"
Amplify(gs, effect_type) ==
  IF gs.systems["Shields"] # "Offline" THEN {gs}
  ELSE IF effect_type = "system_damage"
  THEN IF AvailableSystems(gs) = {} THEN {gs}
       ELSE {DamageAdditional(gs, sys) : sys \in AvailableSystems(gs)}
  ELSE IF effect_type = "new_threat" /\ Len(gs.active_threats) < ThreatCap
  THEN {[gs EXCEPT !.active_threats = Append(@, t)] : t \in PotentialThreats}
  ELSE IF effect_type = "action_restriction" THEN {RestrictActions(gs)}
  ELSE {gs}

\* a red alert that strengthens only the first threat
CatastropheFirst(gs) ==
  IF gs.alert_level = "Red Alert" /\ gs.active_threats # <<>>
  THEN [gs EXCEPT !.active_threats[1].difficulty = @ + 1]
  ELSE gs

\* resolve_crisis: "If at red alert, make crisis even worse"
Catastrophe(gs) ==
  IF gs.alert_level = "Red Alert"
  THEN [gs EXCEPT !.active_threats = [i \in 1..Len(gs.active_threats) |->
          [gs.active_threats[i] EXCEPT !.difficulty = @ + 1]]]
  ELSE gs

\* Game.resolve_crisis: the states it may leave
ResolveCrisis(gs, effect_type) ==
  {Catastrophe(g2) :
     g2 \in UNION {Amplify(g1, effect_type) : g1 \in CrisisEffect(gs, effect_type)}}

\* draw_crisis_card: the deck the card is drawn from
CrisisDecks(gs) ==
  IF gs.crisis_deck = <<>> /\ gs.crisis_discard # <<>>
  THEN {[gs EXCEPT !.crisis_deck = deck, !.crisis_discard = <<>>] :
          deck \in Shuffles(gs.crisis_discard)}
  ELSE IF gs.crisis_deck = <<>>
  THEN {[gs EXCEPT !.crisis_deck = <<"Emergency Alert">>]}
  ELSE {gs}

\* a draw that does not put the card on the discard pile
DrawCrisisCardLost(gs) ==
  UNION {LET crisis == Head(g1.crisis_deck)
             g2 == [g1 EXCEPT !.crisis_deck = Tail(@), !.last_crisis = crisis]
         IN ResolveCrisis(g2, EffectType(crisis)) : g1 \in CrisisDecks(gs)}

\* Game.draw_crisis_card: the states it may leave
DrawCrisisCard(gs) ==
  UNION {LET crisis == Head(g1.crisis_deck)
             g2 == [g1 EXCEPT !.crisis_deck = Tail(@),
                              !.last_crisis = crisis,
                              !.crisis_discard = Append(@, crisis)]
         IN ResolveCrisis(g2, EffectType(crisis)) : g1 \in CrisisDecks(gs)}

(***************************************************************************)
(* THE CAPTAIN IS DEAD: the action phase of Game.play_turn                  *)
(***************************************************************************)
\* action_data as returned by agent.get_action; Nil stands for an absent key
CaptainIntent(action_type, destination, system, threat, content) ==
  [action_type |-> action_type, destination |-> destination, system |-> system,
   threat |-> threat, content |-> content]

\* the text responses that are explored
TextResponses ==
  {"I will move to the Bridge", "Thinking about it", "Status report"}

\* play_turn: '"MOVE" in content.upper()'
MentionsMove(content) == content = "I will move to the Bridge"

\* what the processing of one action leaves: the state, the local
\* action_points_remaining and the flag action_executed
Outcome(gs, ap, executed) == [gs |-> gs, ap |-> ap, executed |-> executed]

\* play_turn, action_type == "move"
MoveOutcomes(gs, ap, a) ==
  IF a.destination # Nil /\ a.destination \in Locations
  THEN {Outcome([gs EXCEPT !.characters[CurChar(gs)].location = a.destination],
                ap, TRUE)}
  ELSE {Outcome(gs, ap, FALSE)}

\* a Jump Core repair that advances two steps
RepairProgressTwice(n) == n + 2

\* play_turn: "self.game_state.jump_core_progress += 1"
RepairProgress(n) == n + 1

\* a repair that counts the progress of the Jump Core and never switches it on
RepairOutcomesDark(gs, ap, a) ==
  IF a.system = "Jump Core" /\ gs.characters[CurChar(gs)].skills["Engineering"] >= 2
  THEN {Outcome([gs EXCEPT !.jump_core_progress = @ + 1], ap, TRUE)}
  ELSE {Outcome(gs, ap, FALSE)}

\* a repair that brings any system but the Jump Core online, whoever repairs
RepairOutcomesUnskilled(gs, ap, a) ==
  IF a.system = Nil \/ a.system \notin SystemNames \/ a.system = "Jump Core"
  THEN {Outcome(gs, ap, FALSE)}
  ELSE {Outcome([gs EXCEPT !.systems[a.system] = "Online"], ap, TRUE)}

\* play_turn, action_type == "repair"
RepairOutcomes(gs, ap, a) ==
  LET engineering_skill == gs.characters[CurChar(gs)].skills["Engineering"] IN
  IF a.system = Nil \/ a.system \notin SystemNames THEN {Outcome(gs, ap, FALSE)}
  ELSE IF gs.systems[a.system] = "Online" THEN {Outcome(gs, ap, FALSE)}
  ELSE IF a.system = "Jump Core"
  THEN IF engineering_skill >= 2
       THEN LET g1 == [gs EXCEPT !.jump_core_progress = RepairProgress(@)] IN
            {Outcome(IF g1.jump_core_progress >= JumpCoreGoal
                     THEN [g1 EXCEPT !.systems["Jump Core"] = "Online"]
                     ELSE g1, ap, TRUE)}
       ELSE {Outcome(gs, ap, FALSE)}
  ELSE IF engineering_skill >= 1
  THEN IF gs.systems[a.system] = "Damaged"
       THEN {Outcome([gs EXCEPT !.systems[a.system] = "Online"], ap, TRUE)}
       ELSE {Outcome([gs EXCEPT !.systems[a.system] = "Damaged"], ap, TRUE)}
  ELSE {Outcome(gs, ap, FALSE)}

\* the threat names of the program in the order of Python's string comparison
ThreatNameOrder ==
  <<"Alien Boarding Party", "Alien Saboteur", "Computer Malfunction", "Energy Drain",
    "Hull Breach", "Navigation Error", "Power Fluctuation", "System Cascade Failure">>

NameRank(name) == CHOOSE i \in 1..Len(ThreatNameOrder) : ThreatNameOrder[i] = name

\* "sorted(active_threats, key=lambda t: t.name)" as the list of the positions
\* in active_threats; the sort is stable: equal names keep their stored order
SortedThreats(threats) ==
  LET Before(j, i) == \/ NameRank(threats[j].name) < NameRank(threats[i].name)
                      \/ (threats[j].name = threats[i].name /\ j < i)
  IN [p \in 1..Len(threats) |->
        CHOOSE i \in 1..Len(threats) :
          Cardinality({j \in 1..Len(threats) : Before(j, i)}) = p - 1]

\* "random.choice(sorted_threats)" when the generator draws the index draw
\* (0 <= draw < len): the position in active_threats of the threat chosen
ChosenThreat(threats, draw) == SortedThreats(threats)[draw + 1]

\* play_turn: "threat.difficulty = max(1, threat.difficulty - 1)" on the
\* threat chosen with the index draw
WeakenThreatAt(gs, draw) ==
  [gs EXCEPT !.active_threats[ChosenThreat(gs.active_threats, draw)].difficulty
               = Max(1, @ - 1)]

\* play_turn: "threat.difficulty = max(1, threat.difficulty - 1)" on a threat
\* chosen by random.choice
WeakenThreat(gs) ==
  IF gs.active_threats = <<>> THEN {gs}
  ELSE {WeakenThreatAt(gs, draw) : draw \in 0..(Len(gs.active_threats) - 1)}

\* play_turn, action_type == "use_system"
UseSystemOutcomes(gs, ap, a) ==
  LET me == CurChar(gs) IN
  IF a.system = Nil \/ a.system \notin SystemNames THEN {Outcome(gs, ap, FALSE)}
  ELSE IF gs.systems[a.system] = "Offline" THEN {Outcome(gs, ap, FALSE)}
  ELSE IF a.system \in {"Shields", "Targeting Computer"}
  THEN {Outcome(g, ap, TRUE) : g \in WeakenThreat(gs)}
  ELSE IF a.system = "Teleporter"
  THEN {Outcome([gs EXCEPT !.characters[me].location = loc], ap, TRUE) :
          loc \in Locations}
  ELSE IF a.system = "Holodeck"
  THEN {Outcome([gs EXCEPT !.characters[me].skills[skill] = Min(SkillCap, @ + 1)],
                ap, TRUE) : skill \in SkillTypes}
  ELSE IF a.system = "Life Support"
  THEN {Outcome([gs EXCEPT !.characters[me].action_points = @ + 1], ap + 1, TRUE)}
  ELSE {Outcome(gs, ap, TRUE)}

\* play_turn: the first active threat with the given name (0: none)
RECURSIVE FindThreat(_, _, _)
FindThreat(threats, name, i) ==
  IF i > Len(threats) THEN 0
  ELSE IF threats[i].name = name THEN i
  ELSE FindThreat(threats, name, i + 1)

\* list.remove of the element at index i
RemoveAt(seq, i) == SubSeq(seq, 1, i - 1) \o SubSeq(seq, i + 1, Len(seq))

\* a battle that is fought whatever the skill of the character
BattleOutcomesReckless(gs, ap, a) ==
  LET i == IF a.threat = Nil THEN 0 ELSE FindThreat(gs.active_threats, a.threat, 1)
  IN IF i = 0 THEN {Outcome(gs, ap, FALSE)}
     ELSE {Outcome([gs EXCEPT !.active_threats = RemoveAt(@, i)], ap, TRUE),
           Outcome([gs EXCEPT !.active_threats[i].difficulty = @ + 1], ap, TRUE)}

\* play_turn, action_type == "battle"; random.random() may fall on either
\* side of success_chance, which lies between 0.3 and 0.9
BattleOutcomes(gs, ap, a) ==
  LET i == IF a.threat = Nil THEN 0 ELSE FindThreat(gs.active_threats, a.threat, 1)
      tactical_skill == gs.characters[CurChar(gs)].skills["Tactical"]
  IN IF i = 0 THEN {Outcome(gs, ap, FALSE)}
     ELSE IF tactical_skill >= gs.active_threats[i].difficulty - 1
     THEN {Outcome([gs EXCEPT !.active_threats = RemoveAt(@, i)], ap, TRUE),
           Outcome([gs EXCEPT !.active_threats[i].difficulty = @ + 1], ap, TRUE)}
     ELSE {Outcome(gs, ap, FALSE)}

\* a play_turn that charges only executed actions
CaptainChargeExecuted(o, action_type) ==
  IF o.executed THEN [o EXCEPT !.ap = @ - 1] ELSE o

\* play_turn: the action point charged for a processed action
CaptainCharge(o, action_type) ==
  IF ~o.executed /\ action_type \notin {"skip", "text_response", "end_turn"}
  THEN [o EXCEPT !.ap = @ - 1]
  ELSE IF o.executed THEN [o EXCEPT !.ap = @ - 1]
  ELSE o

\* play_turn: "Process each action type" and the charge that follows
ProcessAction(gs, ap, a) ==
  LET action_type == IF a.action_type = Nil THEN "unknown" ELSE a.action_type
      done == CASE action_type = "move" -> MoveOutcomes(gs, ap, a)
                [] action_type = "repair" -> RepairOutcomes(gs, ap, a)
                [] action_type = "use_system" -> UseSystemOutcomes(gs, ap, a)
                [] action_type = "battle" -> BattleOutcomes(gs, ap, a)
                [] OTHER -> {Outcome(gs, ap, FALSE)}
  IN {CaptainCharge(o, action_type) : o \in done}

\* play_turn: "current_character.action_points = action_points_remaining"
WriteBack(gs, ap) == [gs EXCEPT !.characters[CurChar(gs)].action_points = ap]

\* the intents a provider may return: every kind of action, well-formed and
\* malformed
AllCaptainIntents(gs) ==
  {CaptainIntent(t, Nil, Nil, Nil, Nil) : t \in {"skip", "end_turn", "dance", Nil}}
  \cup {CaptainIntent("text_response", Nil, Nil, Nil, c) : c \in TextResponses}
  \cup {CaptainIntent("move", d, Nil, Nil, Nil) :
          d \in {"Bridge", "Engineering", "Cargo Bay", "Atlanta", Nil}}
  \cup {CaptainIntent("repair", Nil, sys, Nil, Nil) :
          sys \in {"Jump Core", "Shields", "Warp Drive", Nil}}
  \cup {CaptainIntent("use_system", Nil, sys, Nil, Nil) :
          sys \in SystemNames \cup {"Warp Drive", Nil}}
  \cup {CaptainIntent("battle", Nil, Nil, t, Nil) :
          t \in {gs.active_threats[i].name : i \in 1..Len(gs.active_threats)}
                \cup {"Ghost Ship", Nil}}

\* a provider with no free intent left works on the Jump Core, ends the turn
\* or answers with text only
CaptainIntents(gs, left) ==
  IF left > 0 THEN AllCaptainIntents(gs)
  ELSE {CaptainIntent("repair", Nil, "Jump Core", Nil, Nil),
        CaptainIntent("end_turn", Nil, Nil, Nil, Nil)}
       \cup {CaptainIntent("text_response", Nil, Nil, Nil, c) :
               c \in {t \in TextResponses : ~MentionsMove(t)}}

(***************************************************************************)
(* THE CAPTAIN IS DEAD: state of a run (Game.run_game, Game.play_turn)      *)
(***************************************************************************)
\* max_turns of the runs in which the crew only works on the Jump Core
CaptainTurns == 2

CaptainConfigs ==
  {[num_characters |-> 2, num_threats |-> 2, difficulty |-> "normal",
    max_turns |-> 1, free |-> MaxIntents]}
  \cup [num_characters : {1, 2}, num_threats : {2},
        difficulty : {"easy", "normal", "hard"},
        max_turns : {CaptainTurns}, free : {0}]

\* Game(...) has run setup_game
CaptainInit ==
  /\ cconfig \in CaptainConfigs
  /\ \E k \in 0..MaxShuffle :
       game_state = CaptainSetup(cconfig.num_characters, cconfig.num_threats,
                                 cconfig.difficulty, k)
  /\ cpc = "turn"
  /\ action_points_remaining = 0
  /\ cresult = NoResult
  /\ turn_count = 0
  /\ cfree = cconfig.free
  /\ clast = Step("init", Nil, FALSE, "")

\* run_game: "while turn_count < max_turns"; play_turn begins
CaptainBeginTurn ==
  /\ UNCHANGED pvars
  /\ cpc = "turn"
  /\ turn_count < cconfig.max_turns
  /\ action_points_remaining' = game_state.characters[CurChar(game_state)].action_points
  /\ cpc' = "action"
  /\ clast' = Step("begin", Nil, TRUE, "")
  /\ UNCHANGED <<game_state, cresult, turn_count, cconfig, cfree>>

\* run_game: the turn limit ends the loop
CaptainStop ==
  /\ UNCHANGED pvars
  /\ cpc = "turn"
  /\ turn_count >= cconfig.max_turns
  /\ cpc' = "stopped"
  /\ clast' = Step("stop", Nil, TRUE, "")
  /\ UNCHANGED <<game_state, action_points_remaining, cresult, turn_count,
                 cconfig, cfree>>

\* play_turn: one iteration of "while action_points_remaining > 0"
CaptainAction ==
  /\ UNCHANGED pvars
  /\ cpc = "action"
  /\ action_points_remaining > 0
  /\ \E a \in CaptainIntents(game_state, cfree) :
       LET action_type == IF a.action_type = Nil THEN "unknown" ELSE a.action_type
           target == IF action_type = "move" THEN a.destination
                     ELSE IF action_type = "battle" THEN a.threat
                     ELSE IF action_type = "text_response" THEN a.content
                     ELSE a.system
       IN
       /\ cfree' = IF cfree > 0 /\ action_type \notin {"skip", "end_turn"}
                   THEN cfree - 1 ELSE cfree
       /\ IF action_type \in {"skip", "end_turn"}
          THEN \* break
               /\ game_state' = WriteBack(game_state, action_points_remaining)
               /\ cpc' = "crisis"
               /\ clast' = [Step("action", action_type, FALSE, "break")
                              EXCEPT !.target = target]
               /\ UNCHANGED <<action_points_remaining, cresult>>
          ELSE IF action_type = "text_response" /\ MentionsMove(a.content)
          THEN \* fallback parsing: one point, continue
               /\ action_points_remaining' = action_points_remaining - 1
               /\ clast' = [Step("action", action_type, FALSE, "continue")
                              EXCEPT !.target = target]
               /\ UNCHANGED <<game_state, cpc, cresult>>
          ELSE \E o \in ProcessAction(game_state, action_points_remaining, a) :
                 LET over == CaptainIsGameOver(o.gs) IN
                 /\ game_state' = o.gs
                 /\ action_points_remaining' = o.ap
                 /\ cpc' = IF over[1] THEN "over" ELSE "action"
                 /\ cresult' = IF over[1] THEN over ELSE cresult
                 /\ clast' = [Step("action", action_type, o.executed, "")
                                EXCEPT !.target = target]
  /\ UNCHANGED <<turn_count, cconfig>>

\* play_turn: the action loop ends with no action point left
CaptainEndActions ==
  /\ UNCHANGED pvars
  /\ cpc = "action"
  /\ action_points_remaining <= 0
  /\ game_state' = WriteBack(game_state, action_points_remaining)
  /\ cpc' = "crisis"
  /\ clast' = Step("end_actions", Nil, TRUE, "")
  /\ UNCHANGED <<action_points_remaining, cresult, turn_count, cconfig, cfree>>

\* play_turn: the crisis phase, the check after it and next_character_turn;
\* run_game: turn_count += 1
CaptainCrisis ==
  /\ UNCHANGED pvars
  /\ cpc = "crisis"
  /\ \E g1 \in DrawCrisisCard(game_state) :
       LET over == CaptainIsGameOver(g1) IN
       /\ game_state' = IF over[1] THEN g1 ELSE NextCharacterTurn(g1)
       /\ cpc' = IF over[1] THEN "over" ELSE "turn"
       /\ cresult' = IF over[1] THEN over ELSE NoResult
       /\ turn_count' = IF over[1] THEN turn_count ELSE turn_count + 1
  /\ clast' = Step("crisis", Nil, TRUE, "")
  /\ UNCHANGED <<action_points_remaining, cconfig, cfree>>

CaptainNext ==
  \/ CaptainBeginTurn
  \/ CaptainStop
  \/ CaptainAction
  \/ CaptainEndActions
  \/ CaptainCrisis

(***************************************************************************)
(* The two programs of the repository.  A run is a run of one of them; the  *)
(* variables of the other game keep the values given here.                  *)
(***************************************************************************)
PandemicIdle ==
  /\ state = PandemicState0
  /\ pc = "idle"
  /\ iter = 0
  /\ drawn = 0
  /\ to_infect = 0
  /\ result = NoResult
  /\ turn_counter = 0
  /\ config = [num_players |-> 0, difficulty |-> Nil, max_turns |-> 0, free |-> 0,
               wake |-> 0]
  /\ free = 0
  /\ last = Step("idle", Nil, FALSE, "")
  /\ cascade = <<>>
  /\ setup_cards = 0

CaptainIdle ==
  /\ game_state = CaptainState0
  /\ cpc = "idle"
  /\ action_points_remaining = 0
  /\ cresult = NoResult
  /\ turn_count = 0
  /\ cconfig = [num_characters |-> 0, num_threats |-> 0, difficulty |-> Nil,
                max_turns |-> 0, free |-> 0]
  /\ cfree = 0
  /\ clast = Step("idle", Nil, FALSE, "")

vars == <<pvars, cvars>>

Init ==
  \/ PandemicInit /\ CaptainIdle
  \/ CaptainInit /\ PandemicIdle

PandemicNext ==
  \/ Setup
  \/ BeginTurn
  \/ Stop
  \/ Action
  \/ EndActions
  \/ DrawCard
  \/ EndDraw
  \/ InfectCard
  \/ EndInfect

Next ==
  \/ PandemicNext
  \/ CaptainNext

Spec == Init /\ [][Next]_vars

\* a Captain run
LiveInit == CaptainInit /\ PandemicIdle

\* a Captain run that never halts between two steps of run_game
LiveSpec == LiveInit /\ [][CaptainNext]_vars /\ WF_vars(CaptainNext)

(***************************************************************************)
(* is_game_over of both games as a function of its input: the state is      *)
(* drawn from bounded sets and the check is applied to it.                  *)
(***************************************************************************)
\* values of GameState.outbreak_counter, of a colour's supply and of
\* jump_core_progress that are explored
OutbreakValues == {0, OutbreakLimit - 1, OutbreakLimit, OutbreakLimit + 1}

SupplyValues == {0, 1}

ProgressValues == {0, JumpCoreGoal - 1, JumpCoreGoal, JumpCoreGoal + 1}

PandemicInputs ==
  {[PandemicState0 EXCEPT !.disease_status = status,
                          !.outbreak_counter = outbreaks,
                          !.disease_cubes = supply,
                          !.player_deck = deck] :
     status \in [Colors -> {"Active", "Cured", "Eradicated"}],
     outbreaks \in OutbreakValues,
     supply \in [Colors -> SupplyValues],
     deck \in {<<>>, <<"Atlanta">>}}

CaptainInputs ==
  {[CaptainState0 EXCEPT !.jump_core_progress = progress,
                         !.systems["Life Support"] = life,
                         !.systems["Shields"] = shields,
                         !.alert_level = alert,
                         !.active_threats = SubSeq(ThreatTemplates, 1, n)] :
     progress \in ProgressValues,
     life \in {"Online", "Damaged", "Offline"},
     shields \in {"Online", "Damaged", "Offline"},
     alert \in {"Yellow Alert", "Orange Alert", "Red Alert"},
     n \in 0..ThreatCap}

OverInit ==
  \/ /\ state \in PandemicInputs
     /\ pc = "check"
     /\ iter = 0 /\ drawn = 0 /\ to_infect = 0 /\ result = NoResult
     /\ turn_counter = 0 /\ free = 0 /\ cascade = <<>> /\ setup_cards = 0
     /\ config = [num_players |-> 0, difficulty |-> Nil, max_turns |-> 0, free |-> 0,
               wake |-> 0]
     /\ last = Step("input", Nil, FALSE, "")
     /\ CaptainIdle
  \/ /\ game_state \in CaptainInputs
     /\ cpc = "check"
     /\ action_points_remaining = 0 /\ cresult = NoResult /\ turn_count = 0
     /\ cfree = 0
     /\ cconfig = [num_characters |-> 0, num_threats |-> 0, difficulty |-> Nil,
                   max_turns |-> 0, free |-> 0]
     /\ clast = Step("input", Nil, FALSE, "")
     /\ PandemicIdle

\* pandemic GameState.is_game_over is called on the state
CheckPandemic ==
  /\ pc = "check"
  /\ result' = IsGameOver(state)
  /\ pc' = "checked"
  /\ UNCHANGED <<state, iter, drawn, to_infect, turn_counter, config, free, last,
                 cascade, setup_cards>>
  /\ UNCHANGED cvars

\* captain-is-dead GameState.is_game_over is called on the state
CheckCaptain ==
  /\ cpc = "check"
  /\ cresult' = CaptainIsGameOver(game_state)
  /\ cpc' = "checked"
  /\ UNCHANGED <<game_state, action_points_remaining, turn_count, cconfig, cfree,
                 clast>>
  /\ UNCHANGED pvars

OverNext ==
  \/ CheckPandemic
  \/ CheckCaptain

OverSpec == OverInit /\ [][OverNext]_vars

(***************************************************************************)
(* The Pandemic action handler applied to positions of a game in progress:  *)
(* a game set up, in which a colour may have been cured, the city of the    *)
(* players infected further, the roles dealt otherwise and Player 2 gone    *)
(* to Chicago.                                                              *)
(***************************************************************************)
\* the roles Player 1 has in the positions
PositionRoles == {"Medic", "Scientist", "Researcher"}

\* the most cubes of one colour a city holds (add_disease_cube refuses a 4th)
MaxCubes == 3

Positions ==
  {LET st == SetupGame(2, "normal", k).state
       old == st.cities["Atlanta"].disease_cubes["Blue"]
   IN [st EXCEPT !.players[1].role = role,
                 !.players[2].location = where,
                 !.disease_status["Blue"] = status,
                 !.cities["Atlanta"].disease_cubes["Blue"] = n,
                 !.disease_cubes["Blue"] = @ - (n - old)] :
     k \in 0..MaxShuffle, role \in PositionRoles, where \in {"Atlanta", "Chicago"},
     status \in {"Active", "Cured"}, n \in 0..MaxCubes}

\* play_turn is at the first iteration of its action loop
HandlerInit ==
  /\ state \in Positions
  /\ pc = "action"
  /\ iter = 0
  /\ drawn = 0
  /\ to_infect = 0
  /\ result = NoResult
  /\ turn_counter = 1
  /\ config = [num_players |-> 2, difficulty |-> "normal", max_turns |-> 1, free |-> 1,
               wake |-> 1]
  /\ free = 1
  /\ last = Step("begin", Nil, TRUE, "")
  /\ cascade = <<>>
  /\ setup_cards = TotalPlayerCards(state)
  /\ CaptainIdle

HandlerSpec == HandlerInit /\ [][Action]_vars

(***************************************************************************)
(* The random pick of a threat (use_system Shields / Targeting Computer) as *)
(* a function of the stored list and of the index the generator draws.      *)
(***************************************************************************)
\* the longest list of active threats that is picked from
MaxPicked == 3

\* the highest difficulty of a threat that is picked from
MaxDifficulty == 3

\* active threats: threats added by resolve_crisis, whose difficulty battles,
\* Shields and red alerts have changed since
PickedThreats ==
  {Threat(n, d) : n \in {"Hull Breach", "Power Fluctuation"}, d \in 1..MaxDifficulty}

PickInputs ==
  UNION {[1..n -> PickedThreats] : n \in 1..MaxPicked}

PickInit ==
  /\ \E threats \in PickInputs :
       game_state = [CaptainState0 EXCEPT !.active_threats = threats]
  /\ cpc = "pick"
  /\ action_points_remaining = 0 /\ cresult = NoResult /\ turn_count = 0
  /\ cfree = 0
  /\ cconfig = [num_characters |-> 0, num_threats |-> 0, difficulty |-> Nil,
                max_turns |-> 0, free |-> 0]
  /\ clast = Step("input", Nil, FALSE, "")
  /\ PandemicIdle

\* use_system Shields: the generator draws an index and the threat chosen is
\* weakened
PickThreat ==
  /\ cpc = "pick"
  /\ \E draw \in 0..(Len(game_state.active_threats) - 1) :
       /\ game_state' = WeakenThreatAt(game_state, draw)
       /\ clast' = [Step("pick", "use_system", TRUE, "")
                      EXCEPT !.target =
                        game_state.active_threats[
                          ChosenThreat(game_state.active_threats, draw)].name]
  /\ cpc' = "picked"
  /\ UNCHANGED <<action_points_remaining, cresult, turn_count, cconfig, cfree>>
  /\ UNCHANGED pvars

PickSpec == PickInit /\ [][PickThreat]_vars

(***************************************************************************)
(* THE CAPTAIN IS DEAD: the action loop of play_turn applied to the         *)
(* positions of a game in progress: any of three characters is the current  *)
(* one and crises have left the Shields in any status.                      *)
(***************************************************************************)
\* number of characters and of threats in these positions
CrewSize == 3

CrewPositions ==
  {[CaptainSetup(CrewSize, CrewSize, "normal", k)
      EXCEPT !.current_character_index = c, !.systems["Shields"] = status] :
     k \in 0..MaxShuffle, c \in 0..(CrewSize - 1),
     status \in {"Online", "Damaged", "Offline"}}

CrewInit ==
  /\ game_state \in CrewPositions
  /\ cpc = "action"
  /\ action_points_remaining = StandardActionPoints
  /\ cresult = NoResult
  /\ turn_count = 1
  /\ cfree = MaxIntents
  /\ cconfig = [num_characters |-> CrewSize, num_threats |-> CrewSize,
                difficulty |-> "normal", max_turns |-> 1, free |-> MaxIntents]
  /\ clast = Step("begin", Nil, TRUE, "")
  /\ PandemicIdle

CrewSpec == CrewInit /\ [][CaptainAction]_vars

(***************************************************************************)
(* THE CAPTAIN IS DEAD: an easy game taken up at the crisis phase of a turn  *)
(* and played on for one more turn.  draw_crisis_card and resolve_crisis    *)
(* are methods of Game that take any game state; the states given here      *)
(* include those with Shields offline before the draw, in which the         *)
(* amplification runs for every effect type, and those in which the crisis  *)
(* deck is down to its last card.                                           *)
(***************************************************************************)
\* the action points written back for the current character are 0 or this
SparePoints == 2

\* setup_game: crisis_templates has this many cards
CrisisCards == 10

CrisisPositions ==
  {LET gs == CaptainSetup(2, num_threats, "easy", k)
   IN [gs EXCEPT !.alert_level = alert_level,
                 !.systems["Shields"] = status,
                 !.characters[1].action_points = ap,
                 !.crisis_deck = SubSeq(gs.crisis_deck, drawn_cards + 1, CrisisCards),
                 !.crisis_discard = SubSeq(gs.crisis_deck, 1, drawn_cards)] :
     k \in 0..MaxShuffle, num_threats \in {2, 3, 4},
     alert_level \in {"Yellow Alert", "Orange Alert", "Red Alert"},
     status \in {"Online", "Damaged", "Offline"},
     ap \in {0, SparePoints}, drawn_cards \in {0, CrisisCards - 1}}

CrisisInit ==
  /\ game_state \in CrisisPositions
  /\ cpc = "crisis"
  /\ action_points_remaining = game_state.characters[1].action_points
  /\ cresult = NoResult
  /\ turn_count = 0
  /\ cfree = 1
  /\ cconfig = [num_characters |-> 2, num_threats |-> Len(game_state.active_threats),
                difficulty |-> "easy", max_turns |-> 2, free |-> 1]
  /\ clast = Step("end_actions", Nil, TRUE, "")
  /\ PandemicIdle

CrisisSpec == CrisisInit /\ [][CaptainNext]_vars

(***************************************************************************)
(* Properties                                                               *)
(***************************************************************************)
\* the entries of the history of cube additions, by position
Entries == 1..Len(cascade)

\* the cascade an entry belongs to: the number of top-level additions so far
CascadeOf(i) == Cardinality({j \in 1..i : cascade[j].kind = "top"})

\* the outbreaks recorded in the history
OutbreakEntries == {i \in Entries : cascade[i].kind = "outbreak"}

\* C1: for each colour, the cubes of that colour on all cities plus the
\* supply of that colour are 24, in every state of a Pandemic run.
C1_CubeConservation ==
  \A color \in Colors :
    CubesOnBoard(state, color) + state.disease_cubes[color] = CubesPerColor

\* C1 witness: a treat_disease action has just returned cubes to the supply
\* of a game whose board holds cubes.
C1_Witness ==
  /\ last.kind = "action"
  /\ last.action_type = "treat_disease"
  /\ last.success
  /\ \E color \in Colors : CubesOnBoard(state, color) > 0

\* C2: every city holds between 0 and 3 cubes of each colour, in every state.
C2_CubeRange ==
  \A city \in Registry : \A color \in Colors :
    /\ state.cities[city].disease_cubes[color] >= 0
    /\ state.cities[city].disease_cubes[color] <= 3

\* C2 witness: an epidemic has just tried to put a cube on a city that
\* already held 3 (an outbreak was handled instead).
C2_Witness ==
  /\ last.kind = "draw"
  /\ last.action_type = "epidemic"
  /\ OutbreakEntries # {}

C4_OncePerCascade ==
  \A i \in Entries : \A j \in Entries :
    (i < j /\ CascadeOf(i) = CascadeOf(j)
     /\ cascade[i].city = cascade[j].city
     /\ cascade[i].kind = cascade[j].kind)
      => cascade[i].kind \notin {"outbreak", "added"}

\* C5: the player cards in the deck, the discard pile and all hands are as
\* many as at the end of setup_game, in every state after it.
C5_CardConservation ==
  pc \notin {"setup", "idle", "check", "checked"} =>
    TotalPlayerCards(state) = setup_cards

\* the win and lose conditions of Pandemic, read off a state
PandemicWin(st) == \A color \in Colors : st.disease_status[color] # "Active"

PandemicLose(st) ==
  \/ st.outbreak_counter >= 8
  \/ \E color \in Colors : st.disease_cubes[color] = 0
  \/ st.player_deck = <<>>

\* the win and lose conditions of The Captain Is Dead, read off a state
CaptainWin(gs) == gs.jump_core_progress >= 5

CaptainLose(gs) ==
  \/ gs.systems["Life Support"] = "Offline"
  \/ gs.systems["Shields"] = "Offline"
  \/ gs.alert_level = "Red Alert" /\ Len(gs.active_threats) > 3

VictoryMessages ==
  {"Victory! All diseases have been cured.",
   "Victory! The jump core has been fully repaired and the ship has escaped."}

\* C6: in both games, when a win condition and a lose condition hold in the
\* state is_game_over is called on, it returns True with a Victory message.
C6_WinPrecedesLose ==
  /\ (pc = "checked" /\ PandemicWin(state) /\ PandemicLose(state)) =>
       (result[1] /\ result[2] \in VictoryMessages)
  /\ (cpc = "checked" /\ CaptainWin(game_state) /\ CaptainLose(game_state)) =>
       (cresult[1] /\ cresult[2] \in VictoryMessages)

\* C6 witness: the Pandemic check has been made on a state with every disease
\* cured, 8 outbreaks, an empty supply and an empty player deck.
C6_Witness ==
  /\ pc = "checked"
  /\ PandemicWin(state)
  /\ state.outbreak_counter >= 8
  /\ state.disease_cubes["Blue"] = 0
  /\ state.player_deck = <<>>
  /\ result[1]

\* C7: each repair of the Jump Core by a character with Engineering skill of
\* at least 2 raises jump_core_progress by exactly 1; the repair that brings
\* it to 5 sets the Jump Core Online and the check right after it reports
\* victory.
C7_JumpCoreRepair ==
  [][(/\ cpc = "action"
      /\ clast'.kind = "action"
      /\ clast'.action_type = "repair"
      /\ clast'.target = "Jump Core"
      /\ game_state.characters[CurChar(game_state)].skills["Engineering"] >= 2
      /\ cvars' # cvars)
     => /\ game_state'.jump_core_progress = game_state.jump_core_progress + 1
        /\ clast'.success
        /\ game_state'.jump_core_progress = 5 =>
             /\ game_state'.systems["Jump Core"] = "Online"
             /\ cpc' = "over"
             /\ cresult' = <<TRUE, "Victory! The jump core has been fully repaired and the ship has escaped.">>
        /\ game_state'.jump_core_progress < 5 => cpc' = "action"]_vars

\* C7 witness: the fifth repair has been made, in a game that went from
\* progress 0 to 5.
C7_Witness ==
  /\ cpc = "over"
  /\ clast.action_type = "repair"
  /\ clast.target = "Jump Core"
  /\ game_state.jump_core_progress = 5
  /\ game_state.systems["Jump Core"] = "Online"
  /\ cresult[1]

\* C9: in both games a move whose destination is not in the Registry is
\* reported as not applied and changes nothing in the game state; The
\* Captain Is Dead charges 1 action point for it, Pandemic charges none.
C9_InvalidMove ==
  [][/\ (/\ pc = "action"
         /\ iter' = iter + 1
         /\ last'.action_type = "move"
         /\ last'.target \notin Registry)
        => (~last'.success /\ state' = state)
     /\ (/\ cpc = "action"
         /\ clast'.kind = "action"
         /\ clast'.action_type = "move"
         /\ clast'.target \notin Locations
         /\ cvars' # cvars)
        => /\ ~clast'.success
           /\ game_state' = game_state
           /\ action_points_remaining' = action_points_remaining - 1]_vars

\* C9 witness: The Captain Is Dead has just refused a move to "Cargo Bay"
\* and the turn goes on.
C9_Witness ==
  /\ cpc = "action"
  /\ clast.kind = "action"
  /\ clast.action_type = "move"
  /\ clast.target = "Cargo Bay"
  /\ ~clast.success

\* C10: when the player deck is empty as a card is to be drawn, play_turn
\* returns the defeat at once: nothing in the game state changes in that step
\* (no infection card, no cube, the same current player) and no step follows.
C10_EmptyDeck ==
  [][/\ (pc = "draw" /\ drawn < 2 /\ state.player_deck = <<>> /\ pvars' # pvars)
        => /\ pc' = "over"
           /\ result' = <<TRUE, "Defeat! The player deck is empty.">>
           /\ state' = state
     /\ pc = "over" => pvars' = pvars]_vars

\* C10 witness: the second card of a turn was to be drawn from an empty deck.
C10_Witness ==
  /\ pc = "over"
  /\ last.action_type = "deck_empty"
  /\ state.player_deck = <<>>
  /\ drawn = 1

\* C8: when an infection card asks for a Blue cube while the Blue supply is 0,
\* no cube is added by that call, and the game-over check at the end of
\* that infection phase returns the defeat that names Blue.
C8_BlueSupplyExhausted ==
  /\ \A i \in Entries :
       (cascade[i].kind = "nosupply" /\ cascade[i].color = "Blue") =>
         cascade[i].after = cascade[i].before
  /\ (/\ pc = "over"
      /\ last.kind = "end_infect"
      /\ \E i \in Entries :
           cascade[i].kind = "nosupply" /\ cascade[i].color = "Blue")
       => result = <<TRUE, "Defeat! Ran out of Blue disease cubes.">>

\* the states resolve_crisis passes through for the card on top of the crisis
\* deck: after the effect of the card, after the amplification by offline
\* shields, after the red-alert escalation
CrisisStages(gs) ==
  UNION {LET crisis == Head(g0.crisis_deck)
             g1 == [g0 EXCEPT !.crisis_deck = Tail(@),
                              !.last_crisis = crisis,
                              !.crisis_discard = Append(@, crisis)]
         IN UNION {{<<ga, gb, Catastrophe(gb)>> :
                      gb \in Amplify(ga, EffectType(crisis))} :
                   ga \in CrisisEffect(g1, EffectType(crisis))}
         : g0 \in CrisisDecks(gs)}

\* C11: once is_game_over holds inside a turn nothing is mutated any more in
\* that turn.  Pandemic: a step of the action, draw or infection phase taken
\* from a state in which is_game_over holds draws no player or infection
\* card and changes no city.  Captain: when the effect of a crisis card
\* leaves a state in which is_game_over holds, the rest of resolve_crisis
\* damages no system and adds or strengthens no threat.
C11_StopAtTermination ==
  [][/\ (pc \in {"action", "draw", "infect"} /\ IsGameOver(state)[1])
         => /\ state'.cities = state.cities
            /\ state'.player_deck = state.player_deck
            /\ state'.infection_deck = state.infection_deck
            /\ state'.infection_discard = state.infection_discard
     /\ cpc = "crisis" =>
          \A st \in CrisisStages(game_state) :
            CaptainIsGameOver(st[1])[1]
              => /\ st[2].systems = st[1].systems
                 /\ st[2].active_threats = st[1].active_threats
                 /\ st[3].active_threats = st[1].active_threats]_vars

\* C12: in the Captain's action phase every intent that is not executed,
\* other than skip and end_turn, lowers action_points_remaining by exactly 1.
C12_FailedIntentCharged ==
  [][(/\ cpc = "action"
      /\ clast'.kind = "action"
      /\ cvars' # cvars
      /\ ~clast'.success
      /\ clast'.action_type \notin {"skip", "end_turn"})
       => action_points_remaining' = action_points_remaining - 1]_vars

\* C13: in Pandemic's action phase the current player's action points go
\* down by exactly 1 when _apply_action reports the intent as applied
\* (pass_turn included) and stay as they are when it does not; the action
\* points of the other players do not change.
C13_PandemicCharge ==
  [][(pc = "action" /\ last'.kind = "action" /\ pvars' # pvars)
       => /\ Len(state'.players) = Len(state.players)
          /\ \A p \in 1..Len(state.players) :
               state'.players[p].action_points =
                 IF p = Cur(state) /\ last'.success
                 THEN state.players[p].action_points - 1
                 ELSE state.players[p].action_points]_vars

\* C13 witness: the second intent of a turn was not applied after the first
\* was, and one action point has been spent.
C13_Witness ==
  /\ pc = "action"
  /\ iter = 2
  /\ last.kind = "action"
  /\ ~last.success
  /\ state.players[Cur(state)].action_points = ActionsPerTurn - 1

\* C14: in both games the action phase is left only when the actor's action
\* points have reached 0, when the game is over, or (Captain) on a skip or
\* end_turn intent; until then every iteration handles one intent.
C14_ActionPhaseEnds ==
  [][/\ (pc = "action" /\ pc' # "action")
         => \/ pc' = "over"
            \/ state.players[Cur(state)].action_points <= 0
     /\ (cpc = "action" /\ cpc' # "action")
         => \/ cpc' = "over"
            \/ action_points_remaining <= 0
            \/ clast'.action_type \in {"skip", "end_turn"}]_vars

\* C15: whatever the provider returns, the action phase of a Captain turn
\* ends: from every state of the action phase the run reaches the crisis
\* phase or a game-over result.
C15_ActionPhaseTerminates ==
  (cpc = "action") ~> (cpc \in {"crisis", "over"})

\* C16: in both games a turn that does not end the game moves the turn
\* pointer from i to (i + 1) mod the number of actors, and the actor whose
\* turn begins enters the action phase with the baseline of action points
\* (Pandemic: 4; Captain: 5 on easy, 4 on normal, 3 on hard).
C16_TurnRotation ==
  [][/\ (pc \in {"draw", "infect"} /\ pc' = "turn")
         => /\ state'.current_player_index =
                 (state.current_player_index + 1) % Len(state.players)
            /\ state'.current_player_index \in 0..(Len(state'.players) - 1)
     /\ (pc = "turn" /\ pc' = "action")
         => state'.players[Cur(state')].action_points = 4
     /\ (cpc = "crisis" /\ cpc' = "turn")
         => /\ game_state'.current_character_index =
                 (game_state.current_character_index + 1)
                   % Len(game_state.characters)
            /\ game_state'.current_character_index
                 \in 0..(Len(game_state'.characters) - 1)
     /\ (cpc = "turn" /\ cpc' = "action")
         => action_points_remaining' =
              CASE cconfig.difficulty = "easy" -> 5
                [] cconfig.difficulty = "hard" -> 3
                [] OTHER -> 4]_vars

\* C17: when an Epidemic has been resolved, the cards that were in the
\* infection discard pile (the bottom card just drawn included) are the top
\* of the infection deck: they are the cards that infection_deck.pop() draws
\* next, before any card that had stayed in the deck.
C17_IntensifyOnTop ==
  [][(/\ pc = "draw"
      /\ last'.kind = "draw"
      /\ last'.action_type = "epidemic"
      /\ last'.success
      /\ pvars' # pvars)
       => LET pile == Range(state.infection_discard)
                        \cup (IF state.infection_deck = <<>> THEN {}
                              ELSE {Head(state.infection_deck)})
              n == Cardinality(pile)
              deck == state'.infection_deck
          IN /\ Len(deck) >= n
             /\ {deck[i] : i \in (Len(deck) - n + 1)..Len(deck)} = pile]_vars

\* C18: the hand limit is enforced: at the end of every draw phase the current
\* player's hand holds at most 7 cards, and whenever a drawn card takes the
\* hand above 7 the card discarded is the oldest card of the hand, which is
\* appended to the player discard pile.
C18_HandLimit ==
  [][/\ (pc = "draw" /\ drawn = 2 /\ last'.kind = "end_draw" /\ pvars' # pvars)
          => Len(state.players[Cur(state)].hand) <= HandLimit
     /\ (pc = "draw" /\ last'.kind = "draw" /\ last'.action_type = "card"
            /\ pvars' # pvars)
          => LET p == Cur(state)
                 hand == state.players[p].hand
                 card == Last(state.player_deck)
             IN IF Len(hand) + 1 > HandLimit
                THEN /\ state'.players[p].hand = Append(Tail(hand), card)
                     /\ state'.player_discard = Append(state.player_discard, hand[1])
                ELSE /\ state'.players[p].hand = Append(hand, card)
                     /\ state'.player_discard = state.player_discard]_vars

\* C19: the outbreak counter stays between 0 and 8 and never decreases.
C19_OutbreakCounter ==
  [][/\ state.outbreak_counter \in 0..OutbreakLimit
     /\ state'.outbreak_counter \in 0..OutbreakLimit
     /\ state'.outbreak_counter >= state.outbreak_counter]_vars

\* the event cards that get no branch in the play_event handler
Unimplemented == {"Forecast", "Resilient Population"}

\* C20: playing an event card that has no implemented effect (Forecast,
\* Resilient Population) is reported as not applied and leaves the state
\* unchanged: the card stays in the hand, nothing is added to the discard pile
\* and no action point is spent.
C20_UnimplementedEvent ==
  [][(pc = "action" /\ last'.kind = "action" /\ last'.action_type = "play_event"
        /\ last'.target \in Unimplemented
        /\ last'.target \in Range(state.players[Cur(state)].hand)
        /\ pvars' # pvars)
       => /\ ~last'.success
          /\ state'.players = state.players
          /\ state'.player_discard = state.player_discard
          /\ state' = state]_vars

\* an unimplemented event card has just been played from the hand
C20_Witness ==
  /\ pc = "action"
  /\ last.kind = "action"
  /\ last.action_type = "play_event"
  /\ last.target \in Unimplemented
  /\ last.target \in Range(state.players[Cur(state)].hand)
  /\ ~last.success
  /\ state.players[Cur(state)].action_points = ActionsPerTurn

\* the colours whose status a step changes from Active to Cured
NewlyCured == {c \in Colors : state.disease_status[c] = "Active"
                              /\ state'.disease_status[c] = "Cured"}

\* the entries a step appends to the player discard pile
NewDiscards ==
  SubSeq(state'.player_discard, Len(state.player_discard) + 1,
         Len(state'.player_discard))

\* C21: discover-cure for colour c is applied only if the disease is Active,
\* the current player stands in a city with a research station and holds N
\* different city cards of colour c named in the intent (N = 4 for the
\* Scientist, 5 otherwise); when applied, exactly the named cards leave the
\* hand and enter the player discard pile (one discard entry per card
\* removed) and the status of c becomes Cured.
C21_DiscoverCure ==
  [][(pc = "action" /\ last'.kind = "action" /\ last'.action_type = "discover_cure"
        /\ last'.success)
       => LET p == Cur(state)
              me == state.players[p]
              named == NewDiscards
          IN /\ Cardinality(NewlyCured) = 1
             /\ \A c \in Colors \ NewlyCured :
                   state'.disease_status[c] = state.disease_status[c]
             /\ state.cities[me.location].has_research_station
             /\ Len(named) >= CardsRequired(me.role)
             /\ Cardinality(Range(named)) = Len(named)
             /\ \A i \in 1..Len(named) :
                   /\ named[i] \in Range(me.hand)
                   /\ named[i] \in Registry
                   /\ CityColor(named[i]) \in NewlyCured
             /\ Len(state.player_discard) <= Len(state'.player_discard)
             /\ SubSeq(state'.player_discard, 1, Len(state.player_discard))
                  = state.player_discard
             /\ Len(me.hand) - Len(state'.players[p].hand) = Len(named)
             /\ state'.players[p].hand
                  = SelectSeq(me.hand, LAMBDA x : x \notin Range(named))]_vars

\* some player of the state has the Medic role
MedicInPlay(st) == \E i \in 1..Len(st.players) : st.players[i].role = "Medic"

\* the cities a Medic stands in
MedicCities(st) ==
  {st.players[i].location : i \in {j \in 1..Len(st.players) : st.players[j].role = "Medic"}}

\* a step that applies discover_cure while a Medic is in play
CureWithMedic ==
  /\ pc = "action"
  /\ last'.kind = "action"
  /\ last'.action_type = "discover_cure"
  /\ last'.success
  /\ MedicInPlay(state)

\* C22 as stated: when a cure for colour c is discovered and a Medic is in
\* play, the cubes of colour c of all cities are removed and credited back to
\* the supply.
C22_CleanAllCities ==
  [][CureWithMedic
       => \A c \in NewlyCured :
            /\ \A city \in Registry : state'.cities[city].disease_cubes[c] = 0
            /\ state'.disease_cubes[c]
                 = state.disease_cubes[c]
                   + SumOver([city \in Registry |-> state.cities[city].disease_cubes[c]],
                             Registry)]_vars

\* C22 amended: when a cure for colour c is discovered and a Medic is in play,
\* the cleanup is triggered for the city each Medic stands in: after the
\* action that city holds no cube of colour c, the cubes removed are credited
\* back to the supply, and the cubes of every other city are unchanged.
C22_CleanMedicCity ==
  [][CureWithMedic
       => \A c \in NewlyCured :
            /\ \A city \in Registry :
                  state'.cities[city].disease_cubes[c]
                    = IF city \in MedicCities(state) THEN 0
                      ELSE state.cities[city].disease_cubes[c]
            /\ \A city \in Registry, d \in Colors \ {c} :
                  state'.cities[city].disease_cubes[d] = state.cities[city].disease_cubes[d]
            /\ state'.disease_cubes[c]
                 = state.disease_cubes[c]
                   + SumOver([city \in Registry |-> state.cities[city].disease_cubes[c]],
                             MedicCities(state))
            /\ \A d \in Colors \ {c} : state'.disease_cubes[d] = state.disease_cubes[d]]_vars

\* Red has just been cured in turn 2 while the Medic stands in Jakarta, where
\* it was airlifted by the only other intent of the run: Jakarta, infected
\* during setup, holds no red cube any more while another city still does
C22_Witness ==
  /\ pc = "action"
  /\ turn_counter = 2
  /\ free = 0
  /\ config.free = 2
  /\ last.kind = "action"
  /\ last.action_type = "discover_cure"
  /\ last.success
  /\ state.disease_status["Red"] = "Cured"
  /\ "Jakarta" \in MedicCities(state)
  /\ "Jakarta" \in Range(state.infection_discard)
  /\ "Airlift" \in Range(state.player_discard)
  /\ state.cities["Jakarta"].disease_cubes["Red"] = 0
  /\ \E city \in Registry : state.cities[city].disease_cubes["Red"] > 0

\* the place of an alert level in the order Yellow < Orange < Red
AlertRank(alert_level) ==
  CASE alert_level = "Yellow Alert" -> 0
    [] alert_level = "Orange Alert" -> 1
    [] alert_level = "Red Alert" -> 2

\* C23: the alert level never decreases over a run (once Orange it is never
\* Yellow again, once Red it stays Red) and each escalation raises it by
\* exactly one step.
C23_AlertMonotone ==
  [][/\ AlertRank(game_state'.alert_level) >= AlertRank(game_state.alert_level)
     /\ AlertRank(game_state'.alert_level) <= AlertRank(game_state.alert_level) + 1]_vars

\* a crisis has escalated the alert level of a run: to Red Alert in a hard
\* run, which begins at Orange Alert
C23_Witness ==
  /\ cconfig.difficulty = "hard"
  /\ turn_count >= 1
  /\ clast.kind = "crisis"
  /\ game_state.alert_level = "Red Alert"

\* two lists hold the same threats, each as many times
SameThreats(t1, t2) ==
  /\ Len(t1) = Len(t2)
  /\ \A x \in Range(t1) \cup Range(t2) :
        Cardinality({i \in 1..Len(t1) : t1[i] = x})
          = Cardinality({i \in 1..Len(t2) : t2[i] = x})

\* C24: the pick of a threat depends only on the set of candidates and on the
\* random draw, not on the order in which the candidates are stored: two
\* states that hold the same active threats in a different list order, given
\* the same draw, select the same threat (same name and same difficulty).
C24_PickIgnoresOrder ==
  cpc = "pick" =>
    \A other \in PickInputs :
      SameThreats(other, game_state.active_threats) =>
        \A draw \in 0..(Len(other) - 1) :
          other[ChosenThreat(other, draw)]
            = game_state.active_threats[ChosenThreat(game_state.active_threats, draw)]

\* C25: an outbreak in any Registry city resolves without raising an error
\* (every city name that appears in an adjacency list being itself a city of
\* the Registry, outbreak propagation never looks up a missing city).
C25_OutbreakNoError ==
  [][(/\ pc \in {"draw", "infect"}
      /\ cascade' # cascade
      /\ \E i \in 1..Len(cascade') :
            cascade'[i].kind = "outbreak" /\ cascade'[i].city \in Registry)
       => pc' # "crashed"]_vars

\* the intents that relocate a player: a move by one of the four movement
\* modes, or the Airlift event
Relocation(a) ==
  \/ /\ a.action_type = "move"
     /\ Get(a.movement_type, "regular")
          \in {"regular", "direct_flight", "charter_flight", "shuttle_flight"}
  \/ /\ a.action_type = "play_event"
     /\ a.event_name = "Airlift"

\* the player a relocation moves, and where to
Mover(st, a) ==
  IF a.action_type = "move" THEN Cur(st) ELSE FindPlayer(st, a.target_player)

Arrival(a) == IF a.action_type = "move" THEN a.destination ELSE a.target_city

\* the applied relocations that the step from state to state' may be
Relocations ==
  {a \in Intents(state, Awake(free, turn_counter, config.wake)) :
     /\ Relocation(a)
     /\ last'.action_type = a.action_type
     /\ LET r == ApplyAction(state, a) IN
          /\ r.success
          /\ last'.message = r.message
          /\ state' = ChargeAction(r.state, r.success)}

Treatments ==
  {a \in Intents(state, Awake(free, turn_counter, config.wake)) :
     /\ a.action_type = "treat_disease"
     /\ last'.action_type = "treat_disease"
     /\ ~Falsy(a.disease_color)
     /\ ParseColor(a.disease_color) # Nil
     /\ LET r == ApplyAction(state, a) IN
          /\ last'.success = r.success
          /\ last'.message = r.message
          /\ state' = ChargeAction(r.state, r.success)}

\* C27: treat-disease of colour c in the current city with k > 0 cubes of c
\* removes exactly 1 cube when the player is not the Medic and c is Active,
\* and all k cubes when the player is the Medic or c is not Active; with
\* k = 0 the action is not applied and nothing changes.
C27_TreatDisease ==
  [][(pc = "action" /\ last'.kind = "action" /\ pvars' # pvars)
       => \A a \in Treatments :
            LET p == Cur(state)
                city == state.players[p].location
                c == ParseColor(a.disease_color)
                k == state.cities[city].disease_cubes[c]
                removed == IF state.players[p].role = "Medic"
                              \/ state.disease_status[c] # "Active"
                           THEN k ELSE 1
            IN IF k > 0
               THEN /\ last'.success
                    /\ state'.cities[city].disease_cubes[c] = k - removed
                    /\ state'.disease_cubes[c] = state.disease_cubes[c] + removed
                    /\ \A d \in Colors \ {c} :
                          /\ state'.disease_cubes[d] = state.disease_cubes[d]
                          /\ state'.cities[city].disease_cubes[d]
                               = state.cities[city].disease_cubes[d]
                    /\ \A other \in Registry \ {city} :
                          state'.cities[other] = state.cities[other]
               ELSE /\ ~last'.success
                    /\ state' = state]_vars

\* a Medic has just treated the blue cubes of Atlanta, Blue being Active:
\* none is left
C27_Witness ==
  /\ pc = "action"
  /\ last.kind = "action"
  /\ last.action_type = "treat_disease"
  /\ last.success
  /\ last.message = "Medic removed all cubes"
  /\ state.players[1].role = "Medic"
  /\ state.disease_status["Blue"] = "Active"
  /\ state.cities["Atlanta"].disease_cubes["Blue"] = 0
  /\ "Atlanta" \in Range(state.infection_discard)

\* the step from state to state' removes card from the hand of giver and
\* appends it to the hand of receiver, and changes nothing else but the action
\* point the current player pays
CardMoves(giver, receiver, card) ==
  LET st1 == [state EXCEPT !.players[giver].hand = RemoveFirst(@, card)]
      st2 == [st1 EXCEPT !.players[receiver].hand = Append(@, card)]
  IN state' = [st2 EXCEPT !.players[Cur(state)].action_points = @ - 1]

\* C28: share-knowledge and communicate are applied only when the current
\* player and the target player are in the same city; share-knowledge moves
\* exactly one card from the giver's hand to the receiver's hand, and the card
\* must be the card of the city they are in unless the giver is the
\* Researcher.
C28_ShareAndCommunicate ==
  [][/\ (pc = "action" /\ last'.kind = "action" /\ last'.success
          /\ last'.action_type = "share_knowledge")
         => \E t \in 1..Len(state.players) :
              /\ state.players[t].location = state.players[Cur(state)].location
              /\ \E giver, receiver \in {t, Cur(state)} :
                   /\ {giver, receiver} = {t, Cur(state)}
                   /\ \E card \in Range(state.players[giver].hand) :
                        /\ CardMoves(giver, receiver, card)
                        /\ \/ card = state.players[giver].location
                           \/ state.players[giver].role = "Researcher"
     /\ (pc = "action" /\ last'.kind = "action" /\ last'.success
          /\ last'.action_type = "communicate")
         => LET here == {t \in 1..Len(state.players) :
                           state.players[t].location = state.players[Cur(state)].location}
            IN /\ \E t \in here : state'.players[t].messages = state.players[t].messages + 1
               /\ \A t \in 1..Len(state.players) :
                     /\ state'.players[t].messages \in
                          {state.players[t].messages, state.players[t].messages + 1}
                     /\ state'.players[t].messages # state.players[t].messages => t \in here]_vars

\* a player that is not the Researcher has just given the card of the city
\* both players are in, and the other player holds it
C28_Witness ==
  /\ pc = "action"
  /\ last.kind = "action"
  /\ last.action_type = "share_knowledge"
  /\ last.success
  /\ last.message = "shared card"
  /\ state.players[1].location = state.players[2].location
  /\ state.players[2].hand # <<>>
  /\ Last(state.players[2].hand) = state.players[1].location
  /\ Len(state.players[1].hand) + 2 = Len(state.players[2].hand)

\* the status a repair leaves a system in
NextTier(status) == IF status = "Offline" THEN "Damaged" ELSE "Online"

\* C29: a repair of a system other than the Jump Core is applied only when the
\* actor's Engineering skill is at least 1 and the system is not Online, and
\* it moves that system exactly one tier (Offline to Damaged, Damaged to
\* Online) and no other system; a repair of the Jump Core is applied only with
\* Engineering at least 2; a repair of an Online system is not applied and
\* changes no system status.
C29_Repair ==
  [][(/\ cpc = "action"
      /\ clast'.kind = "action"
      /\ clast'.action_type = "repair"
      /\ cvars' # cvars)
       => LET system == clast'.target
              engineering_skill ==
                game_state.characters[CurChar(game_state)].skills["Engineering"]
          IN /\ (clast'.success /\ system \in SystemNames \ {"Jump Core"})
                  => /\ engineering_skill >= 1
                     /\ game_state.systems[system] # "Online"
                     /\ game_state'.systems =
                          [game_state.systems EXCEPT ![system] = NextTier(@)]
             /\ (clast'.success /\ system = "Jump Core") => engineering_skill >= 2
             /\ (system \in SystemNames /\ game_state.systems[system] = "Online")
                  => /\ ~clast'.success
                     /\ game_state'.systems = game_state.systems]_vars

\* C29 witness: the Shields were offline and a repair has just left them
\* damaged.
C29_Witness ==
  /\ cpc = "action"
  /\ clast.kind = "action"
  /\ clast.action_type = "repair"
  /\ clast.target = "Shields"
  /\ clast.success
  /\ game_state.systems["Shields"] = "Damaged"
  /\ action_points_remaining = StandardActionPoints - 1

\* C30: a battle against a named active threat is attempted only if the
\* actor's Tactical skill is at least the difficulty of the threat minus 1;
\* an attempted battle either removes that threat from the active threats or
\* raises the difficulty of that threat by exactly 1, and costs 1 action point
\* either way; a battle that is not attempted changes no threat.
C30_Battle ==
  [][(/\ cpc = "action"
      /\ clast'.kind = "action"
      /\ clast'.action_type = "battle"
      /\ cvars' # cvars)
       => LET threats == game_state.active_threats
              i == IF clast'.target = Nil THEN 0 ELSE FindThreat(threats, clast'.target, 1)
              tactical_skill ==
                game_state.characters[CurChar(game_state)].skills["Tactical"]
          IN /\ clast'.success
                  => /\ i # 0
                     /\ tactical_skill >= threats[i].difficulty - 1
                     /\ \/ game_state'.active_threats = RemoveAt(threats, i)
                        \/ game_state'.active_threats =
                             [threats EXCEPT ![i].difficulty = @ + 1]
                     /\ action_points_remaining' = action_points_remaining - 1
             /\ ~clast'.success => game_state'.active_threats = threats]_vars

\* C30 witness: the first battle of the turn was lost and Energy Drain has
\* grown from difficulty 2 to 3.
C30_Witness ==
  /\ cpc = "action"
  /\ clast.kind = "action"
  /\ clast.action_type = "battle"
  /\ clast.target = "Energy Drain"
  /\ clast.success
  /\ Len(game_state.active_threats) = CrewSize
  /\ game_state.active_threats[3] = Threat("Energy Drain", 3)
  /\ action_points_remaining = StandardActionPoints - 1

\* the names of a list of threats, in order
ThreatNames(threats) == [i \in 1..Len(threats) |-> threats[i].name]

\* a step of the crisis phase in which a card of the given effect type is drawn
CrisisOf(effect_type) ==
  /\ cpc = "crisis"
  /\ cvars' # cvars
  /\ EffectType(game_state'.last_crisis) = effect_type

\* C31: there are never more than 4 active threats; a new_threat crisis
\* resolved with 4 active threats adds no threat and raises the alert level by
\* one step instead (a Red alert stays Red).
C31_ThreatCap ==
  [][/\ Len(game_state.active_threats) <= ThreatCap
     /\ Len(game_state'.active_threats) <= ThreatCap
     /\ (CrisisOf("new_threat") /\ Len(game_state.active_threats) = ThreatCap)
          => /\ ThreatNames(game_state'.active_threats) =
                  ThreatNames(game_state.active_threats)
             /\ AlertRank(game_state'.alert_level) =
                  Min(2, AlertRank(game_state.alert_level) + 1)]_vars

\* C31 witness: a new_threat card was resolved with the four threats of the
\* setup active, which are still the active threats, and the alert is Orange.
C31_Witness ==
  /\ clast.kind = "crisis"
  /\ EffectType(game_state.last_crisis) = "new_threat"
  /\ ThreatNames(game_state.active_threats) = ThreatNames(ThreatTemplates)
  /\ game_state.alert_level = "Orange Alert"

\* C32: an action_restriction crisis leaves every character with
\* max(1, previous - 1) action points, and no character with more action
\* points than before the crisis, the character whose turn has just spent its
\* points included.
C32_ActionRestriction ==
  cpc = "crisis" =>
    \A st \in CrisisStages(game_state) :
      EffectType(st[3].last_crisis) = "action_restriction" =>
        \A i \in 1..Len(game_state.characters) :
          /\ st[3].characters[i].action_points =
               Max(1, game_state.characters[i].action_points - 1)
          /\ st[3].characters[i].action_points <=
               game_state.characters[i].action_points

\* one tier down: the status a crisis leaves a damaged system in
TierDown(status) == IF status = "Online" THEN "Damaged" ELSE "Offline"

\* gb is ga after one application of the effect type by the rules of the first
\* application
AppliedOnce(ga, gb, effect_type) ==
  CASE effect_type = "system_damage" ->
         IF AvailableSystems(ga) = {} THEN gb.systems = ga.systems
         ELSE \E sys \in AvailableSystems(ga) :
                gb.systems = [ga.systems EXCEPT ![sys] = TierDown(@)]
    [] effect_type = "new_threat" ->
         IF Len(ga.active_threats) < ThreatCap
         THEN \E t \in PotentialThreats :
                /\ gb.active_threats = Append(ga.active_threats, t)
                /\ gb.alert_level = ga.alert_level
         ELSE /\ gb.active_threats = ga.active_threats
              /\ AlertRank(gb.alert_level) = Min(2, AlertRank(ga.alert_level) + 1)
    [] effect_type = "action_restriction" ->
         \A i \in 1..Len(ga.characters) :
           gb.characters[i].action_points = Max(1, ga.characters[i].action_points - 1)
    [] OTHER -> TRUE

C34_CriticalSystemsUp ==
  cpc = "crisis" =>
    /\ game_state.systems["Shields"] # "Offline"
    /\ game_state.systems["Life Support"] # "Offline"
    /\ \A st \in CrisisStages(game_state) :
         st[1].systems["Shields"] = "Offline" =>
           /\ EffectType(st[1].last_crisis) = "system_damage"
           /\ game_state.systems["Shields"] = "Damaged"

\* C34 witness: the first crisis of a game has taken the Shields offline and
\* the amplification has damaged one more system.
C34_Witness ==
  /\ cpc = "over"
  /\ clast.kind = "crisis"
  /\ turn_count = 0
  /\ EffectType(game_state.last_crisis) = "system_damage"
  /\ game_state.systems["Shields"] = "Offline"
  /\ \E sys \in SystemNames \ {"Shields", "Jump Core"} :
       game_state.systems[sys] = "Damaged"

\* C35: when the alert level is Red at the end of a crisis resolution, the
\* difficulty of every active threat, a threat added by that crisis included,
\* is raised by exactly 1; when it is not Red the crisis changes no
\* difficulty.  The difficulty of a threat is never below 1.
C35_RedAlert ==
  [][/\ \A i \in 1..Len(game_state.active_threats) :
          game_state.active_threats[i].difficulty >= 1
     /\ \A i \in 1..Len(game_state'.active_threats) :
          game_state'.active_threats[i].difficulty >= 1
     /\ (cpc = "crisis" /\ cvars' # cvars)
          => LET old == game_state.active_threats
                 new == game_state'.active_threats
                 raised == IF game_state'.alert_level = "Red Alert" THEN 1 ELSE 0
             IN /\ Len(new) >= Len(old)
                /\ \A i \in 1..Len(new) :
                     IF i <= Len(old)
                     THEN /\ new[i].name = old[i].name
                          /\ new[i].difficulty = old[i].difficulty + raised
                     ELSE \E t \in PotentialThreats :
                            /\ new[i].name = t.name
                            /\ new[i].difficulty = t.difficulty + raised]_vars

\* C35 witness: under Red Alert a crisis has added Hull Breach to three
\* threats and left it with difficulty 5.
C35_Witness ==
  /\ clast.kind = "crisis"
  /\ game_state.alert_level = "Red Alert"
  /\ EffectType(game_state.last_crisis) = "new_threat"
  /\ Len(game_state.active_threats) = ThreatCap
  /\ game_state.active_threats[ThreatCap] = Threat("Hull Breach", 5)

\* the two player cards of the turn have been drawn and the game goes on
AfterDraws ==
  /\ pc = "draw"
  /\ drawn = 2
  /\ ~IsGameOver(state)[1]
  /\ pvars' # pvars

\* C36: after One Quiet Night is played, the next infection phase that is
\* reached is skipped entirely (no infection card is drawn, no cube added, no
\* outbreak counted) and clears the flag, so that the infection phase after
\* it runs normally; no other action sets the flag.
C36_OneQuietNight ==
  [][/\ (AfterDraws /\ state.quiet_night_active)
          => /\ pc' # "infect"
             /\ ~state'.quiet_night_active
             /\ state'.cities = state.cities
             /\ state'.disease_cubes = state.disease_cubes
             /\ state'.outbreak_counter = state.outbreak_counter
             /\ state'.infection_deck = state.infection_deck
             /\ state'.infection_discard = state.infection_discard
     /\ (AfterDraws /\ ~state.quiet_night_active)
          => /\ pc' = "infect"
             /\ to_infect' = InfectionRates[state.infection_rate_index + 1]
     /\ (pc = "infect" => ~state.quiet_night_active)
     /\ (~state.quiet_night_active /\ state'.quiet_night_active)
          => /\ pc = "action"
             /\ last'.action_type = "play_event"
             /\ last'.target = "One Quiet Night"
             /\ last'.success]_vars

\* C36 witness: One Quiet Night was played, the infection phase of the turn
\* has been skipped and the flag is cleared.
C36_Witness ==
  /\ pc = "turn"
  /\ last.kind = "end_draw"
  /\ "One Quiet Night" \in Range(state.player_discard)
  /\ ~state.quiet_night_active

\* the crisis cards of a game state: deck and discard pile
CrisisPiles(gs) == gs.crisis_deck \o gs.crisis_discard

\* C37: the crisis cards are conserved: deck and discard pile hold 10 cards
\* after setup and after every draw and reshuffle, each draw moves exactly the
\* front card of the deck to the discard pile, and the default card
\* "Emergency Alert" is never created.
C37_CrisisCardsConserved ==
  [][(cpc \in {"turn", "action", "crisis"} /\ cvars' # cvars)
       => /\ Len(CrisisPiles(game_state)) = CrisisCards
          /\ Len(CrisisPiles(game_state')) = CrisisCards
          /\ Range(CrisisPiles(game_state')) = Range(CrisisTemplates)
          /\ game_state'.last_crisis # "Emergency Alert"
          /\ IF cpc # "crisis"
             THEN /\ game_state'.crisis_deck = game_state.crisis_deck
                  /\ game_state'.crisis_discard = game_state.crisis_discard
             ELSE IF game_state.crisis_deck # <<>>
             THEN /\ game_state'.crisis_deck = Tail(game_state.crisis_deck)
                  /\ game_state'.crisis_discard =
                       Append(game_state.crisis_discard, Head(game_state.crisis_deck))
                  /\ game_state'.last_crisis = Head(game_state.crisis_deck)
             ELSE /\ game_state'.crisis_discard = <<game_state'.last_crisis>>
                  /\ Len(game_state'.crisis_deck) = CrisisCards - 1]_vars

\* C37 witness: the second crisis of the run found the deck empty, reshuffled
\* the ten cards of the discard pile and drew one of them.
C37_Witness ==
  /\ cpc = "turn"
  /\ clast.kind = "crisis"
  /\ turn_count = 2
  /\ Len(game_state.crisis_discard) = 1
  /\ Len(game_state.crisis_deck) = CrisisCards - 1

\* the infection cards of a game state: deck and discard pile
InfectionPiles(st) == st.infection_deck \o st.infection_discard

\* C38: the infection cards are conserved: after setup and after every
\* infection draw, epidemic and reshuffle, deck and discard pile together hold
\* as many cards as there are cities (40), and the card of each city occurs
\* exactly once in the two piles.
C38_InfectionCardsConserved ==
  pc \notin {"idle", "setup"} =>
    /\ Cardinality(Registry) = 40
    /\ Len(InfectionPiles(state)) = Cardinality(Registry)
    /\ \A city \in Registry :
         Cardinality({i \in 1..Len(InfectionPiles(state)) :
                        InfectionPiles(state)[i] = city}) = 1

\* progress and status of the Jump Core agree
JumpCoreConsistent(gs) ==
  /\ gs.jump_core_progress \in 0..JumpCoreGoal
  /\ gs.systems["Jump Core"] =
       IF gs.jump_core_progress = JumpCoreGoal THEN "Online" ELSE "Offline"

\* C39: in every state 0 <= jump_core_progress <= 5, the Jump Core is Online
\* exactly when the progress is 5 and Offline otherwise (never Damaged), and
\* no step of the crisis phase changes the status of the Jump Core or the
\* progress.
C39_JumpCore ==
  [][/\ cpc # "idle" => JumpCoreConsistent(game_state)
     /\ cpc' # "idle" => JumpCoreConsistent(game_state')
     /\ cpc = "crisis"
          => /\ game_state'.systems["Jump Core"] = game_state.systems["Jump Core"]
             /\ game_state'.jump_core_progress = game_state.jump_core_progress]_vars

\* C39 witness: the fifth repair has completed the Jump Core in the second
\* turn, after a crisis phase that found the repair under way.
C39_Witness ==
  /\ cpc = "over"
  /\ clast.action_type = "repair"
  /\ turn_count = 1
  /\ game_state.jump_core_progress = JumpCoreGoal
  /\ game_state.systems["Jump Core"] = "Online"
  /\ game_state.crisis_discard # <<>>

\* C40: an intent that the action handler does not apply (any action type,
\* any failed precondition, an unknown action type or movement type) leaves
\* the whole game state unchanged: locations, hands, discard piles, cubes and
\* supply, research stations, disease status, messages and the quiet-night
\* flag are as before the call.
C40_FailedIntentFrame ==
  [][(pc = "action" /\ last'.kind = "action" /\ ~last'.success /\ pvars' # pvars)
       => state' = state]_vars

\* C40 witness: a move to a city that is not connected has just been refused.
C40_Witness ==
  /\ pc = "action"
  /\ last.kind = "action"
  /\ last.action_type = "move"
  /\ last.target \in Registry
  /\ ~last.success
  /\ state.players[Cur(state)].location # last.target

====
